---- MODULE Spec2Model ----
(***************************************************************************)
(* FLUX dataset versioning system: the file lock (flux/core/locker.py) and *)
(* the repository operations (flux/core/repository.py) over one store on   *)
(* one filesystem, run by several concurrent callers.  One step of the     *)
(* model is one filesystem operation (or one purely local computation) of  *)
(* one caller.                                                             *)
(***************************************************************************)
EXTENDS Integers, Sequences, FiniteSets, TLC

\* ------------------------------------------------------------------ bounds
MaxOps == 2          \* operations each caller starts
HashLen == 2         \* length of a digest in the model (64 in the code)

\* --------------------------------------------------------------- constants
\* time is counted in tenths of a second
Timeout == 100       \* FileLock timeout, 10.0 s
RetryInterval == 1   \* FileLock retry_interval, 0.1 s
MaxInterval == 10    \* backoff cap, 1.0 s

Procs == {"p1", "p2", "p3"}
LockNames == {"create_version", "refs", "import_version", "test_lock"}
Digits == 0..3
NoName == << >>
HashNames == [1..HashLen -> Digits]
Artifacts == {"raw", "config", "processed", "metadata"}
\* what a file holds: who produced it, from which raw bytes and config, and
\* the serial number of the producing call (for created_at / created_by)
Content(by, r, c, n) == [by |-> by, r |-> r, c |-> c, n |-> n]
Missing == Content("missing", NoName, NoName, 0)
NoFile == "nofile"
Stale == "stale"

EmptyTab == [t \in {} |-> NoName]
NoFiles == [a \in Artifacts |-> Missing]

\* ------------------------------------------------------------------ hasher
RECURSIVE WSumSeq(_, _)
WSumSeq(s, k) == IF s = << >> THEN 0 ELSE k * Head(s) + WSumSeq(Tail(s), k + 1)

\* hashlib.sha256(...).hexdigest(): a fixed-length digest of a string, each
\* digit a checksum of the whole string
Sha(s) == [i \in 1..HashLen |-> (WSumSeq(s, i) + i * Len(s)) % 4]

\* the input files of the model: bytes of a raw CSV, and whether the CSV has a
\* 'text' column
RawGood == <<0>>
RawNoText == <<1>>
RawAbsent == <<2>>     \* a path at which there is no file
RawFiles == {RawGood, RawNoText}
HasTextColumn(raw) == raw = RawGood

\* configs: a dict is the sequence of its items in insertion order; the
\* value of an item is a scalar or a dict
KeyPipeline == 0
KeyName == 1
KeyOptions == 2
KeyLang == 3
Scalar(k, v) == [key |-> k, kind |-> "scalar", val |-> v, sub |-> << >>]
Nested(k, d) == [key |-> k, kind |-> "dict", val |-> 0, sub |-> d]

\* the pipeline value 0 is a list of known steps, 1 a list with an unknown step
CfgGood == <<Scalar(KeyPipeline, 0)>>
CfgBadStep == <<Scalar(KeyPipeline, 1)>>
CfgNoPipeline == <<Scalar(KeyName, 0)>>
Configs == {CfgGood, CfgBadStep, CfgNoPipeline}
\* "pipeline" in config_dict
HasPipeline(cfg) == \E i \in 1..Len(cfg) : cfg[i].key = KeyPipeline
KnownSteps(cfg) ==
    \E i \in 1..Len(cfg) : cfg[i].key = KeyPipeline /\ cfg[i].kind = "scalar" /\ cfg[i].val = 0

\* one config in several key orders, at the top and in the nested dict, and
\* two configs that differ from it in a value
CfgOptions(a, b) == <<Scalar(KeyLang, a), Scalar(KeyName, b)>>
CfgOptionsSwapped(a, b) == <<Scalar(KeyName, b), Scalar(KeyLang, a)>>
CfgFull == <<Scalar(KeyPipeline, 0), Scalar(KeyName, 1), Nested(KeyOptions, CfgOptions(0, 1))>>
CfgFullReordered ==
    <<Nested(KeyOptions, CfgOptionsSwapped(0, 1)), Scalar(KeyName, 1), Scalar(KeyPipeline, 0)>>
CfgFullInnerSwapped ==
    <<Scalar(KeyPipeline, 0), Scalar(KeyName, 1), Nested(KeyOptions, CfgOptionsSwapped(0, 1))>>
CfgFullOtherValue ==
    <<Scalar(KeyPipeline, 0), Scalar(KeyName, 1), Nested(KeyOptions, CfgOptions(1, 0))>>
CfgFullOtherName ==
    <<Scalar(KeyName, 0), Scalar(KeyPipeline, 0), Nested(KeyOptions, CfgOptions(0, 1))>>

\* the characters of JSON text
Brace == 1
EndBrace == 2
Colon == 3
Comma == 4
KeyText(k) == 10 + k
ScalarText(v) == 20 + v

\* a faulty variant: the items are written in insertion order
ItemsNotSorted(d) == d

\* sort_keys=True: the items of a dict in ascending order of their keys
RECURSIVE SortKeys(_)
SortKeys(d) ==
    IF d = << >> THEN << >>
    ELSE LET i == CHOOSE i \in 1..Len(d) : \A j \in 1..Len(d) : d[i].key <= d[j].key
         IN <<d[i]>> \o SortKeys(SubSeq(d, 1, i - 1) \o SubSeq(d, i + 1, Len(d)))

\* json.dumps(config, sort_keys=True, separators=(",", ":")): the text of a
\* dict, nested dicts included
RECURSIVE Dumps(_)
RECURSIVE DumpItems(_)
DumpItems(items) ==
    IF items = << >> THEN << >>
    ELSE <<KeyText(Head(items).key), Colon>>
         \o (IF Head(items).kind = "dict" THEN Dumps(Head(items).sub)
                                          ELSE <<ScalarText(Head(items).val)>>)
         \o (IF Tail(items) = << >> THEN << >> ELSE <<Comma>>)
         \o DumpItems(Tail(items))
Dumps(d) == <<Brace>> \o DumpItems(SortKeys(d)) \o <<EndBrace>>

canonicalize_config(config) == Dumps(config)

compute_file_hash(raw) == Sha(raw)
compute_config_hash(cfg) == Sha(canonicalize_config(cfg))
\* a faulty variant: the config hash comes first
compute_version_hash_swapped(rh, ch) == Sha(ch \o rh)

\* combined = raw_hash + config_hash; sha256(combined).hexdigest()
compute_version_hash(rh, ch) == Sha(rh \o ch)
VersionHashOf(raw, cfg) ==
    compute_version_hash(compute_file_hash(raw), compute_config_hash(cfg))

\* ------------------------------------------------------------------ inputs
H1 == VersionHashOf(RawGood, CfgGood)
\* two more version hashes: one sharing all but the last digit with H1, one
\* differing from H1 in the first digit; and the first digit of H1 as an id
H2 == [H1 EXCEPT ![HashLen] = (@ + 1) % 4]
H3 == [H1 EXCEPT ![1] = (@ + 1) % 4]
PrefixH1 == SubSeq(H1, 1, 1)
TagMain == <<3>>
TagV1 == <<0>>
TagNames == {TagMain, TagV1}

\* member paths of a tarball, character by character: none, "../a", "/a",
\* "a/..", "a..a" and "a"
NoPath == << >>
PathEscape == <<".", ".", "/", "a">>
PathAbsolute == <<"/", "a">>
PathParentLast == <<"a", "/", ".", ".">>
PathDotsInside == <<"a", ".", ".", "a">>
PathPlain == <<"a">>

\* an archive: the entries of a tarball.  ndirs top-level directories, the
\* first one named name and holding files; one more member at path extra,
\* if any; source: the files of the version it was exported from, if any
ArchiveOf(nm, fs, nd, extra, src) ==
    [ndirs |-> nd, name |-> nm, files |-> fs, extra |-> extra, source |-> src]
Archive(nm, fs) == ArchiveOf(nm, fs, 1, NoPath, NoFiles)
Foreign(a) == Content("foreign", NoName, NoName, 0)
ForeignFiles == [a \in Artifacts |-> Foreign(a)]
ExtFull == Archive(H1, ForeignFiles)
ExtPartial == Archive(H1, [a \in Artifacts |-> IF a = "raw" THEN Foreign(a) ELSE Missing])
NoArchive == Archive(NoName, NoFiles)
ExternalArchives == {ExtFull, ExtPartial}
\* archives with a member at a given path, with no or two directories, and
\* with a directory whose name is too short, too long, or not all hex digits
ExtWithMember(path) == ArchiveOf(H2, ForeignFiles, 1, path, NoFiles)
ExtNoDir == ArchiveOf(NoName, NoFiles, 0, NoPath, NoFiles)
ExtTwoDirs == ArchiveOf(H2, ForeignFiles, 2, NoPath, NoFiles)
ExtShortName == Archive(PrefixH1, ForeignFiles)
ExtLongName == Archive(H2 \o <<0>>, ForeignFiles)
ExtBadChar == Archive([H2 EXCEPT ![1] = 4 + Head(H2)], ForeignFiles)

\* ------------------------------------------------------------------- state
VARIABLES
    lockFile,      \* locks/<name>.lock: NoFile, or who wrote the file
    versions,      \* versions/: directory name -> its files (artifact -> content)
    refsFile,      \* refs.json: [st, tab]; st = "trunc" while being rewritten
    tarball,       \* exported archives, by version hash
    layout,        \* the directories under the store path: "versions", "locks"
    pc,            \* per caller: position in the running operation
    call,          \* per caller: the running operation and its arguments
    loc,           \* per caller: local variables
    acquired,      \* per caller: names of the FileLocks with _acquired = True
    result,        \* per caller: outcome of the operation when pc = "done"
    nops,          \* per caller: operations started
    menu,          \* per caller: the calls it makes in this run (never changes)
    pipelineRuns,  \* history: apply_pipeline calls per version hash
    committed,     \* history: files of a version when an operation returned it
    lastWrite,     \* history: the last mapping written for each tag
    history        \* history: facts about what has happened per version hash

vars == <<lockFile, versions, refsFile, tarball, layout, pc, call, loc, acquired,
          result, nops, menu, pipelineRuns, committed, lastWrite, history>>

fsVars == <<lockFile, versions, refsFile, tarball, layout>>
ghostVars == <<menu, pipelineRuns, committed, lastWrite, history>>

\* a value of metadata.json: None (the key is absent or null), an int, or a
\* float kept as the quotient sum / n (n = 0: NaN)
None == [kind |-> "none", sum |-> 0, n |-> 1]
IntVal(k) == [kind |-> "int", sum |-> k, n |-> 1]
FloatVal(sum, n) == [kind |-> "float", sum |-> sum, n |-> n]
NumericKeys == {"num_samples", "num_unique_texts", "vocab_size", "avg_text_length"}
\* a metadata record without the numeric keys ({} if metadata.json is missing)
NoMeta == [k \in NumericKeys |-> None]

NoCall == [op |-> "none", raw |-> NoName, cfg |-> NoName, tags |-> << >>,
           id |-> NoName, tag |-> NoName, arch |-> NoArchive, dtype |-> "none",
           timeout |-> Timeout, retry |-> RetryInterval, twice |-> FALSE,
           rows |-> << >>, flag |-> FALSE, rows2 |-> << >>,
           meta1 |-> NoMeta, meta2 |-> NoMeta, id2 |-> NoName]
NoLoc == [vh |-> NoName, id |-> NoName, tag |-> NoName, res |-> NoName,
          ti |-> 0, tries |-> 0, lk |-> "none", refs |-> EmptyTab,
          err |-> "none", todo |-> {}, ran |-> FALSE, existed |-> FALSE,
          snap |-> NoFiles, msg |-> "", listed |-> {}, seen |-> EmptyTab,
          wait |-> 0, had |-> FALSE, dirs |-> << >>, entries |-> << >>,
          h1 |-> NoName, h2 |-> NoName, recs |-> << >>, data |-> << >>]
CreateCall(raw, cfg, tags) ==
    [NoCall EXCEPT !.op = "create", !.raw = raw, !.cfg = cfg, !.tags = tags]
TagCall(id, t) == [NoCall EXCEPT !.op = "tag", !.id = id, !.tag = t]
ImportCall(ar) == [NoCall EXCEPT !.op = "import", !.arch = ar]
ImportExported(h) == [NoCall EXCEPT !.op = "import", !.id = h]
ExportCall(id) == [NoCall EXCEPT !.op = "export", !.id = id]
LoadCall(id, dt) == [NoCall EXCEPT !.op = "load", !.id = id, !.dtype = dt]
ResolveCall(id) == [NoCall EXCEPT !.op = "resolve", !.id = id]

MetricsCall(rows, tok) == [NoCall EXCEPT !.op = "metrics", !.rows = rows, !.flag = tok]
DiffCall(meta1, meta2) == [NoCall EXCEPT !.op = "diff", !.meta1 = meta1, !.meta2 = meta2]
CompareCall(v1, v2) == [NoCall EXCEPT !.op = "compare", !.id = v1, !.id2 = v2]
OverlapCall(rows1, rows2) == [NoCall EXCEPT !.op = "overlap", !.rows = rows1, !.rows2 = rows2]
InitRepoCall == [NoCall EXCEPT !.op = "init"]
ListCall == [NoCall EXCEPT !.op = "list"]
LockCall(n) == [NoCall EXCEPT !.op = "lock", !.tag = <<0>>, !.dtype = n]
\* FileLock(lock_dir, n, timeout=t, retry_interval=r); twice: the caller
\* calls release a second time on the same handle
LockCallWith(n, t, r, twice) ==
    [LockCall(n) EXCEPT !.timeout = t, !.retry = r, !.twice = twice]

\* the workloads: which calls each caller makes in a run
Menu(m1, m2, m3) == [p \in Procs |-> CASE p = "p1" -> m1 [] p = "p2" -> m2 [] OTHER -> m3]
MenuLock == Menu({LockCall("test_lock")}, {LockCall("test_lock")}, {LockCall("test_lock")})
MenuCreate == Menu({CreateCall(RawGood, CfgGood, << >>), CreateCall(RawGood, CfgBadStep, << >>),
                    CreateCall(RawNoText, CfgGood, << >>), CreateCall(RawGood, CfgNoPipeline, << >>)},
                   {CreateCall(RawGood, CfgGood, << >>), CreateCall(RawGood, CfgBadStep, << >>),
                    LoadCall(H1, "processed")},
                   {})
MenuImport == Menu({CreateCall(RawGood, CfgGood, << >>)},
                   {CreateCall(RawGood, CfgGood, << >>), ImportCall(ExtFull), ImportCall(ExtPartial)},
                   {})
MenuTags == Menu({CreateCall(RawGood, CfgGood, << >>), TagCall(H1, TagMain)},
                 {CreateCall(RawGood, CfgGood, <<TagMain, TagV1>>), TagCall(TagMain, TagV1)},
                 {})
MenuRefs == Menu({TagCall(H1, TagMain), TagCall(H3, TagMain)},
                 {TagCall(H3, TagV1), TagCall(TagMain, TagV1)},
                 {})
MenuStore == Menu({CreateCall(RawGood, CfgGood, << >>), CreateCall(RawGood, CfgGood, <<TagMain>>),
                   ExportCall(TagMain)},
                  {TagCall(H3, TagMain), ImportCall(ExtFull), ResolveCall(H3)},
                  {})
MenuArchive == Menu({ExportCall(H1), ImportExported(H1), ImportCall(ExtFull)},
                    {ImportExported(H1), ImportCall(ExtWithMember(PathPlain)),
                     ImportCall(ExtWithMember(PathEscape)), ImportCall(ExtWithMember(PathAbsolute)),
                     ImportCall(ExtWithMember(PathParentLast)),
                     ImportCall(ExtWithMember(PathDotsInside)),
                     ImportCall(ExtNoDir), ImportCall(ExtTwoDirs), ImportCall(ExtShortName),
                     ImportCall(ExtLongName), ImportCall(ExtBadChar)},
                    {})
MenuResolve == Menu({ResolveCall(H1), ResolveCall(PrefixH1)},
                    {ResolveCall(PrefixH1), ResolveCall(TagMain)},
                    {})
NoStale == {}

\* a mean, kept as the sum and the number of values (0/0: NaN)
Mean(sum, n) == [sum |-> sum, n |-> n]
NoMetrics == [num_samples |-> 0, num_unique_texts |-> 0, vocab_size |-> 0,
              avg_text_length |-> Mean(0, 0)]
NoOverlap == [jaccard |-> Mean(0, 0), common |-> 0, only1 |-> 0, only2 |-> 0,
              examples1 |-> {}, examples2 |-> {}]
\* an entry of the metrics diff; no entry for a key: NoEntry
NoEntry == [has |-> FALSE, v1 |-> None, v2 |-> None, change |-> None, pct_change |-> None]
NoDiff == [k \in NumericKeys |-> NoEntry]
NoResult == [st |-> "none", val |-> NoName, left |-> FALSE, ran |-> FALSE,
             existed |-> FALSE, same |-> TRUE, msg |-> "", listed |-> {},
             entries |-> << >>, metrics |-> NoMetrics, overlap |-> NoOverlap,
             diff |-> NoDiff, noOverlap |-> FALSE]
NoHistory == [createFailed |-> FALSE, createTimedOut |-> FALSE,
              imported |-> FALSE, createOk |-> 0, createEnded |-> 0]

\* the four artifacts of a version that is in the store
StoredFiles(h) == [a \in Artifacts |-> Content("stored", h, NoName, 0)]

\* the ref tables over a set of versions: tags point to versions in the store
Tables(names, vs) ==
    {t \in UNION {[T -> vs] : T \in SUBSET names} : Cardinality(DOMAIN t) <= 2}

\* a store holding the versions vs and the ref table tab, possibly with lock
\* files left by a killed process
InitStore(m, stale, vs, tab) ==
    /\ lockFile = [n \in LockNames |-> IF n \in stale THEN Stale ELSE NoFile]
    /\ versions = [h \in vs |-> StoredFiles(h)]
    /\ refsFile = [st |-> "ok", tab |-> tab]
    /\ tarball = [h \in {} |-> NoArchive]
    /\ layout = {"versions", "locks"}
    /\ pc = [p \in Procs |-> "idle"]
    /\ call = [p \in Procs |-> NoCall]
    /\ loc = [p \in Procs |-> NoLoc]
    /\ acquired = [p \in Procs |-> {}]
    /\ result = [p \in Procs |-> NoResult]
    /\ nops = [p \in Procs |-> 0]
    /\ menu = m
    /\ pipelineRuns = [h \in HashNames |-> 0]
    /\ committed = [h \in vs |-> StoredFiles(h)]
    /\ lastWrite = tab
    /\ history = [h \in HashNames |-> NoHistory]

\* a store just initialised, possibly with lock files left by a killed process
InitWith(m, stale) ==
    /\ lockFile = [n \in LockNames |-> IF n \in stale THEN Stale ELSE NoFile]
    /\ versions = [h \in {} |-> NoFiles]
    /\ refsFile = [st |-> "ok", tab |-> EmptyTab]
    /\ tarball = [h \in {} |-> NoArchive]
    /\ layout = {"versions", "locks"}
    /\ pc = [p \in Procs |-> "idle"]
    /\ call = [p \in Procs |-> NoCall]
    /\ loc = [p \in Procs |-> NoLoc]
    /\ acquired = [p \in Procs |-> {}]
    /\ result = [p \in Procs |-> NoResult]
    /\ nops = [p \in Procs |-> 0]
    /\ menu = m
    /\ pipelineRuns = [h \in HashNames |-> 0]
    /\ committed = [h \in {} |-> NoFiles]
    /\ lastWrite = EmptyTab
    /\ history = [h \in HashNames |-> NoHistory]

\* a path that may or may not hold a store: the directories lay, refs.json
\* with the table tab if had, the versions vs under versions/
InitPath(m, lay, had, vs, tab) ==
    /\ lockFile = [n \in LockNames |-> NoFile]
    /\ versions = [h \in vs |-> StoredFiles(h)]
    /\ refsFile = IF had THEN [st |-> "ok", tab |-> tab]
                         ELSE [st |-> "absent", tab |-> EmptyTab]
    /\ tarball = [h \in {} |-> NoArchive]
    /\ layout = lay
    /\ pc = [p \in Procs |-> "idle"]
    /\ call = [p \in Procs |-> NoCall]
    /\ loc = [p \in Procs |-> NoLoc]
    /\ acquired = [p \in Procs |-> {}]
    /\ result = [p \in Procs |-> NoResult]
    /\ nops = [p \in Procs |-> 0]
    /\ menu = m
    /\ pipelineRuns = [h \in HashNames |-> 0]
    /\ committed = [h \in vs |-> StoredFiles(h)]
    /\ lastWrite = IF had THEN tab ELSE EmptyTab
    /\ history = [h \in HashNames |-> NoHistory]

\* the paths: tags name versions that are there; where versions/ is gone the
\* table may still name a version
InitPaths(m, sets) ==
    \E lay \in SUBSET {"versions", "locks"} : \E had \in BOOLEAN :
        \E vs \in (IF "versions" \in lay THEN sets ELSE {{}}) :
            \E tab \in (IF had THEN Tables({TagMain, TagV1},
                                           IF "versions" \in lay THEN vs ELSE {H1})
                               ELSE {EmptyTab}) :
                InitPath(m, lay, had, vs, tab)

\* ----------------------------------------------------------------- helpers
VersionDirs == DOMAIN versions
DirExists(h) == h \in VersionDirs
FilesOf(h) == IF DirExists(h) THEN versions[h] ELSE NoFiles
FullyPresent(h) == DirExists(h) /\ \A a \in Artifacts : versions[h][a] # Missing

\* dict / directory update
Put(f, k, v) == [x \in DOMAIN f \cup {k} |-> IF x = k THEN v ELSE f[x]]
Drop(f, k) == [x \in DOMAIN f \ {k} |-> f[x]]

\* Path.mkdir(parents=True, exist_ok=True) of a version directory
EnsureDirectory(vs, h) == IF h \in DOMAIN vs THEN vs ELSE Put(vs, h, NoFiles)
\* writing one file of a version directory whose parent is created if absent
WriteFile(vs, h, a, c) ==
    Put(EnsureDirectory(vs, h), h, [EnsureDirectory(vs, h)[h] EXCEPT ![a] = c])

IsPrefix(s, t) == Len(s) <= Len(t) /\ SubSeq(t, 1, Len(s)) = s

Min(a, b) == IF a <= b THEN a ELSE b

\* ------------------------------------------------- control-flow fragments
\* history kept when an operation ends
HistoryAtEnd(p, st) ==
    IF call[p].op = "create" /\ loc[p].vh # NoName
    THEN IF st = "ok"
         THEN [history EXCEPT ![loc[p].vh].createOk = Min(@ + 1, 2),
                              ![loc[p].vh].createEnded = Min(@ + 1, 2)]
         ELSE IF st = "LockTimeoutError" /\ pc[p] = "acq" /\ loc[p].lk = "create_version"
         THEN [history EXCEPT ![loc[p].vh].createTimedOut = TRUE,
                              ![loc[p].vh].createEnded = Min(@ + 1, 2)]
         ELSE [history EXCEPT ![loc[p].vh].createFailed = TRUE,
                              ![loc[p].vh].createEnded = Min(@ + 1, 2)]
    ELSE history

CommittedAtEnd(p, st, val) ==
    IF /\ call[p].op \in {"create", "import"}
       /\ st = "ok"
       /\ val \notin DOMAIN committed
       /\ FullyPresent(val)
    THEN Put(committed, val, versions[val])
    ELSE committed

\* the operation returns (st = "ok") or raises (st = the exception class,
\* msg = what its message says, listed = the names its message lists)
DoneWith(p, st, val, msg, listed) ==
    /\ pc' = [pc EXCEPT ![p] = "done"]
    /\ result' = [result EXCEPT ![p] =
                    [st |-> st, val |-> val,
                     left |-> call[p].op = "create" /\ DirExists(loc[p].vh),
                     ran |-> loc[p].ran,
                     existed |-> loc[p].existed,
                     same |-> loc[p].existed => FilesOf(loc[p].vh) = loc[p].snap,
                     msg |-> msg, listed |-> listed, entries |-> loc[p].entries,
                     metrics |-> NoMetrics, overlap |-> NoOverlap,
                     diff |-> NoDiff, noOverlap |-> FALSE]]
    /\ loc' = [loc EXCEPT ![p] = NoLoc]
    /\ history' = HistoryAtEnd(p, st)
    /\ committed' = CommittedAtEnd(p, st, val)

Done(p, st, val) == DoneWith(p, st, val, loc[p].msg, loc[p].listed)

\* continue at label l with locals nl
Step(p, l, nl) ==
    /\ pc' = [pc EXCEPT ![p] = l]
    /\ loc' = [loc EXCEPT ![p] = nl]
    /\ UNCHANGED <<result, history, committed>>

\* a call begins at label l with locals nl
Begin(p, l, nl) ==
    /\ pc' = [pc EXCEPT ![p] = l]
    /\ loc' = [loc EXCEPT ![p] = nl]
    /\ result' = [result EXCEPT ![p] = NoResult]
    /\ UNCHANGED <<history, committed>>

\* a faulty variant: a failing load is not caught
CaughtNever(p) == FALSE

\* the exception is raised inside the try block of _compute_data_overlap,
\* whose except clause returns {}
Caught(p) == call[p].op = "compare" /\ loc[p].ti >= 2

\* an exception leaves the function: the with-blocks it passes release
\* their locks first
Raise(p, kind) ==
    IF Caught(p)
    THEN Step(p, "cmp_ret", [loc[p] EXCEPT !.err = "caught"])
    ELSE IF acquired[p] = {}
    THEN Done(p, kind, NoName)
    ELSE Step(p, "unwind", [loc[p] EXCEPT !.err = kind])

\* raise an exception of class kind with a message
RaiseWith(p, kind, msg, listed) ==
    IF Caught(p)
    THEN Step(p, "cmp_ret", [loc[p] EXCEPT !.err = "caught"])
    ELSE IF acquired[p] = {}
    THEN DoneWith(p, kind, NoName, msg, listed)
    ELSE Step(p, "unwind", [loc[p] EXCEPT !.err = kind, !.msg = msg, !.listed = listed])

\* -------------------------------------------------------------- FileLock
\* the variable interval after k retries of a handle with retry_interval r:
\* r at first, then min(interval * 2, 1.0) after each sleep
RECURSIVE Interval(_, _)
Interval(r, k) == IF k = 0 THEN r ELSE Min(Interval(r, k - 1) * 2, MaxInterval)

\* time slept after k retries
RECURSIVE Slept(_, _)
Slept(r, k) == IF k = 0 THEN 0 ELSE Slept(r, k - 1) + Interval(r, k - 1)

\* time.time() - start_time is at least the time slept; the caller may also
\* have been kept from running for longer than the timeout t
Delays(t) == {0, t}

\* a faulty variant: the elapsed time is never found to have reached the timeout
TimeoutReachedNever(p, d) == FALSE

\* elapsed >= self.timeout, the caller having been delayed by d
TimeoutReached(p, d) ==
    Slept(call[p].retry, loc[p].tries) + d >= call[p].timeout

\* faulty variants of the exclusive creation: no O_EXCL at all, a lock file
\* of a dead owner taken over, and O_EXCL left out for one lock name
CanCreateLockNoExcl(n) == TRUE
CanCreateLockOverStale(n) == lockFile[n] \in {NoFile, Stale}
CanCreateLockRefsShared(n) == n = "refs" \/ lockFile[n] = NoFile
CanCreateLockCreateShared(n) == n = "create_version" \/ lockFile[n] = NoFile

\* os.open(path, O_CREAT | O_EXCL | O_WRONLY) succeeds iff the file is absent
CanCreateLock(n) == lockFile[n] = NoFile

\* self.lock_dir.mkdir(parents=True, exist_ok=True), done before the first
\* attempt of an acquire
MkdirLocks == layout \cup {"locks"}

\* where the body of each with-block starts
AfterAcquire(n) ==
    CASE n = "create_version" -> "cv_check"
      [] n = "refs" -> "tv_load"
      [] n = "import_version" -> "iv_mkdir"
      [] OTHER -> "held"

\* FileLock.acquire, one attempt that creates the lock file
AcquireOk(p) ==
    /\ pc[p] = "acq"
    /\ CanCreateLock(loc[p].lk)
    /\ lockFile' = [lockFile EXCEPT ![loc[p].lk] = p]
    /\ acquired' = [acquired EXCEPT ![p] = @ \cup {loc[p].lk}]
    /\ layout' = MkdirLocks
    /\ Step(p, AfterAcquire(loc[p].lk), [loc[p] EXCEPT !.tries = 0, !.wait = 0])
    /\ UNCHANGED <<versions, refsFile, tarball, call, nops, menu, pipelineRuns, lastWrite>>

\* FileLock.acquire, FileExistsError before the timeout: sleep and retry
AcquireRetry(p) ==
    /\ pc[p] = "acq"
    /\ ~CanCreateLock(loc[p].lk)
    /\ Slept(call[p].retry, loc[p].tries) < call[p].timeout
    /\ Step(p, "acq", [loc[p] EXCEPT !.tries = @ + 1,
                                      !.wait = Interval(call[p].retry, loc[p].tries)])
    /\ layout' = MkdirLocks
    /\ UNCHANGED <<lockFile, versions, refsFile, tarball, call, acquired, nops, menu,
                   pipelineRuns, lastWrite>>

\* FileLock.acquire, FileExistsError with elapsed >= timeout
AcquireTimeout(p) ==
    /\ pc[p] = "acq"
    /\ ~CanCreateLock(loc[p].lk)
    /\ \E d \in Delays(call[p].timeout) : TimeoutReached(p, d)
    /\ Raise(p, "LockTimeoutError")
    /\ layout' = MkdirLocks
    /\ UNCHANGED <<lockFile, versions, refsFile, tarball, call, acquired, nops, menu,
                   pipelineRuns, lastWrite>>

\* a faulty variant: release leaves the lock file where it is
ReleasedFileKept(p, n) == lockFile

\* FileLock.release: unlink the file if this handle acquired and it exists
ReleasedFile(p, n) ==
    IF n \in acquired[p] /\ lockFile[n] # NoFile
    THEN [lockFile EXCEPT ![n] = NoFile]
    ELSE lockFile

\* the innermost with-block still open
InnerLock(p) ==
    IF "refs" \in acquired[p] THEN "refs"
    ELSE IF "import_version" \in acquired[p] THEN "import_version"
    ELSE IF "create_version" \in acquired[p] THEN "create_version"
    ELSE "test_lock"

\* __exit__ while an exception propagates: release, then go on raising
Unwind(p) ==
    /\ pc[p] = "unwind"
    /\ acquired[p] # {}
    /\ lockFile' = ReleasedFile(p, InnerLock(p))
    /\ acquired' = [acquired EXCEPT ![p] = @ \ {InnerLock(p)}]
    /\ IF acquired[p] \ {InnerLock(p)} = {}
       THEN Done(p, loc[p].err, NoName)
       ELSE Step(p, "unwind", loc[p])
    /\ UNCHANGED <<versions, refsFile, tarball, layout, call, nops, menu, pipelineRuns, lastWrite>>

\* ------------------------------------------------------- resolve_version
\* a faulty variant: every caller goes on as tag_version does
AfterResolveAsTag(p) == IF call[p].op = "resolve" THEN "rv_ret" ELSE "tv_lock"

\* where the caller of resolve_version goes on
AfterResolve(p) ==
    CASE call[p].op \in {"create", "tag"} -> "tv_lock"
      [] call[p].op = "export" -> "ex_tar"
      [] call[p].op = "resolve" -> "rv_ret"
      [] call[p].op = "compare" -> "cmp_res"
      [] OTHER -> "lv_read"

\* a faulty variant: only a version that has a tag is found by its name
ExactMatchIfTagged(id) ==
    DirExists(id) /\ \E t \in DOMAIN refsFile.tab : refsFile.tab[t] = id

\* a faulty variant: a tag of that name hides the directory
ExactMatchUnlessTag(id) == DirExists(id) /\ id \notin DOMAIN refsFile.tab

\* (repo_path / "versions" / version_id).exists(); with the empty id the
\* path is versions/ itself
ExactMatch(id) == IF id = NoName THEN "versions" \in layout ELSE DirExists(id)

\* version_dir.exists(): the id names a version directory
ResolveExact(p) ==
    /\ pc[p] = "rv_dir"
    /\ IF ExactMatch(loc[p].id)
       THEN Step(p, AfterResolve(p), [loc[p] EXCEPT !.res = loc[p].id, !.msg = "dir"])
       ELSE Step(p, "rv_tag", loc[p])
    /\ UNCHANGED <<fsVars, call, acquired, nops, menu, pipelineRuns, lastWrite>>

\* the directory names that start with the id
PrefixMatches(id) == {d \in VersionDirs : IsPrefix(id, d)}

\* a faulty variant: a tag that is a prefix of a version name is passed over
TagMatchUnlessPrefix(id) == id \in DOMAIN refsFile.tab /\ PrefixMatches(id) = {}

\* version_id in refs
TagMatch(id) == id \in DOMAIN refsFile.tab

\* _load_refs and the lookup of the id as a tag
ResolveTag(p) ==
    /\ pc[p] = "rv_tag"
    /\ IF refsFile.st = "trunc"
       THEN Raise(p, "JSONDecodeError")
       ELSE IF TagMatch(loc[p].id)
       THEN Step(p, AfterResolve(p),
                 [loc[p] EXCEPT !.res = refsFile.tab[loc[p].id], !.msg = "tag"])
       ELSE Step(p, "rv_prefix", loc[p])
    /\ UNCHANGED <<fsVars, call, acquired, nops, menu, pipelineRuns, lastWrite>>

\* versions_dir.iterdir() and the prefix match
ResolvePrefix(p) ==
    /\ pc[p] = "rv_prefix"
    /\ IF Cardinality(PrefixMatches(loc[p].id)) = 1
       THEN Step(p, AfterResolve(p),
                 [loc[p] EXCEPT !.res = CHOOSE d \in PrefixMatches(loc[p].id) : TRUE,
                                !.msg = "prefix"])
       ELSE IF Cardinality(PrefixMatches(loc[p].id)) > 1
       THEN RaiseWith(p, "VersionNotFoundError", "Ambiguous version ID",
                      PrefixMatches(loc[p].id))
       ELSE RaiseWith(p, "VersionNotFoundError", "Version or tag not found", {})
    /\ UNCHANGED <<fsVars, call, acquired, nops, menu, pipelineRuns, lastWrite>>

\* resolve_version(version_id, repo_path) is called by itself
StartResolve(p) ==
    /\ pc[p] \in {"idle", "done"}
    /\ nops[p] < MaxOps
    /\ \E c \in {m \in menu[p] : m.op = "resolve"} :
         /\ call' = [call EXCEPT ![p] = c]
         /\ Begin(p, "rv_dir", [NoLoc EXCEPT !.id = c.id])
    /\ nops' = [nops EXCEPT ![p] = @ + 1]
    /\ UNCHANGED menu
    /\ UNCHANGED <<fsVars, acquired, pipelineRuns, lastWrite>>

\* resolve_version returns the hash to its caller
ResolveReturn(p) ==
    /\ pc[p] = "rv_ret"
    /\ Done(p, "ok", loc[p].res)
    /\ UNCHANGED <<fsVars, call, acquired, nops, menu, pipelineRuns, lastWrite>>

\* ----------------------------------------------------------- tag_version
\* with FileLock(lock_dir, "refs"): start acquiring
TagLock(p) ==
    /\ pc[p] = "tv_lock"
    /\ Step(p, "acq", [loc[p] EXCEPT !.lk = "refs", !.tries = 0])
    /\ UNCHANGED <<fsVars, call, acquired, nops, menu, pipelineRuns, lastWrite>>

\* a faulty variant: a tag that is in the table keeps its mapping
WithTagUnlessPresent(tab, t, h) == IF t \in DOMAIN tab THEN tab ELSE Put(tab, t, h)

\* refs[tag_name] = version_hash
WithTag(tab, t, h) == Put(tab, t, h)

\* refs = _load_refs(repo_path); refs[tag_name] = version_hash
TagLoad(p) ==
    /\ pc[p] = "tv_load"
    /\ IF refsFile.st = "trunc"
       THEN Raise(p, "JSONDecodeError")
       ELSE Step(p, "tv_open",
                 [loc[p] EXCEPT !.refs = WithTag(refsFile.tab, loc[p].tag, loc[p].res),
                                !.seen = refsFile.tab])
    /\ UNCHANGED <<fsVars, call, acquired, nops, menu, pipelineRuns, lastWrite>>

\* write_json: open(path, "w") truncates refs.json
TagOpen(p) ==
    /\ pc[p] = "tv_open"
    /\ refsFile' = [st |-> "trunc", tab |-> EmptyTab]
    /\ Step(p, "tv_dump", loc[p])
    /\ UNCHANGED <<lockFile, versions, tarball, layout, call, acquired, nops, menu, pipelineRuns, lastWrite>>

\* write_json: json.dump writes the table
TagDump(p) ==
    /\ pc[p] = "tv_dump"
    /\ refsFile' = [st |-> "ok", tab |-> loc[p].refs]
    /\ lastWrite' = Put(lastWrite, loc[p].tag, loc[p].res)
    /\ Step(p, "tv_rel", [loc[p] EXCEPT !.refs = EmptyTab])
    /\ UNCHANGED <<lockFile, versions, tarball, layout, call, acquired, nops, menu, pipelineRuns>>

\* the refs with-block ends; tag_version returns to its caller
TagRelease(p) ==
    /\ pc[p] = "tv_rel"
    /\ lockFile' = ReleasedFile(p, "refs")
    /\ acquired' = [acquired EXCEPT ![p] = @ \ {"refs"}]
    /\ IF call[p].op = "tag"
       THEN Done(p, "ok", NoName)
       ELSE Step(p, "cv_tags", [loc[p] EXCEPT !.seen = EmptyTab])
    /\ UNCHANGED <<versions, refsFile, tarball, layout, call, nops, menu, pipelineRuns, lastWrite>>

\* tag_version(version_id, tag_name, repo_path) is called
StartTag(p) ==
    /\ pc[p] \in {"idle", "done"}
    /\ nops[p] < MaxOps
    /\ \E c \in {m \in menu[p] : m.op = "tag"} :
         /\ call' = [call EXCEPT ![p] = c]
         /\ Begin(p, "rv_dir", [NoLoc EXCEPT !.id = c.id, !.tag = c.tag])
    /\ nops' = [nops EXCEPT ![p] = @ + 1]
    /\ UNCHANGED menu
    /\ UNCHANGED <<fsVars, acquired, pipelineRuns, lastWrite>>

\* -------------------------------------------------------- create_version
\* apply_pipeline(df, pipeline) on the rows of the raw file
Pipeline(raw, cfg) == Content("pipeline", raw, cfg, 0)

\* compute_metrics plus the three hashes; created_at and created_by differ
\* from call to call
Metadata(p, raw, cfg) == Content(p, raw, cfg, nops[p])

\* is_flux_repo(path): versions/ is a directory and refs.json is a file
IsFluxRepo == "versions" \in layout /\ refsFile.st # "absent"

\* raw_path.exists()
RawExists(raw) == raw \in RawFiles

\* a faulty variant: the config is looked at before the store and the raw path
CreateChecksConfigFirst(c) ==
    IF ~HasPipeline(c.cfg) THEN "InvalidConfigError"
    ELSE IF ~IsFluxRepo THEN "RepositoryNotFoundError"
    ELSE IF ~RawExists(c.raw) THEN "FileNotFoundError"
    ELSE "ok"

\* the checks of create_version before it computes the hashes: the exception
\* raised, or "ok"
CreateChecks(c) ==
    IF ~IsFluxRepo THEN "RepositoryNotFoundError"
    ELSE IF ~RawExists(c.raw) THEN "FileNotFoundError"
    ELSE IF ~HasPipeline(c.cfg) THEN "InvalidConfigError"
    ELSE "ok"

\* create_version is called: the checks before the lock and the hashes
StartCreate(p) ==
    /\ pc[p] \in {"idle", "done"}
    /\ nops[p] < MaxOps
    /\ \E c \in {m \in menu[p] : m.op = "create"} :
         /\ call' = [call EXCEPT ![p] = c]
         /\ IF CreateChecks(c) # "ok"
            THEN /\ pc' = [pc EXCEPT ![p] = "done"]
                 /\ result' = [result EXCEPT ![p] =
                                 [NoResult EXCEPT !.st = CreateChecks(c)]]
                 /\ loc' = [loc EXCEPT ![p] = NoLoc]
                 /\ history' = [history EXCEPT
                                  ![VersionHashOf(c.raw, c.cfg)].createFailed = TRUE,
                                  ![VersionHashOf(c.raw, c.cfg)].createEnded = Min(@ + 1, 2)]
                 /\ UNCHANGED committed
            ELSE Begin(p, "acq", [NoLoc EXCEPT !.vh = VersionHashOf(c.raw, c.cfg),
                                               !.lk = "create_version",
                                               !.existed = FullyPresent(VersionHashOf(c.raw, c.cfg)),
                                               !.snap = FilesOf(VersionHashOf(c.raw, c.cfg))])
    /\ nops' = [nops EXCEPT ![p] = @ + 1]
    /\ UNCHANGED menu
    /\ UNCHANGED <<fsVars, acquired, pipelineRuns, lastWrite>>

\* a faulty variant: the existence check never finds the version
AlreadyExistsNever(p) == FALSE

\* version_dir.exists() under the create_version lock
AlreadyExists(p) == DirExists(loc[p].vh)

\* if version_dir.exists(): the idempotent path
CreateCheck(p) ==
    /\ pc[p] = "cv_check"
    /\ IF AlreadyExists(p)
       THEN Step(p, "cv_tags", [loc[p] EXCEPT !.ti = 1])
       ELSE Step(p, "cv_mkdir", loc[p])
    /\ UNCHANGED <<fsVars, call, acquired, nops, menu, pipelineRuns, lastWrite>>

\* ensure_directory(version_dir)
CreateMkdir(p) ==
    /\ pc[p] = "cv_mkdir"
    /\ versions' = EnsureDirectory(versions, loc[p].vh)
    /\ Step(p, "cv_raw", loc[p])
    /\ UNCHANGED <<lockFile, refsFile, tarball, layout, call, acquired, nops, menu, pipelineRuns, lastWrite>>

\* an exception inside the try block: go to the except clause
Fail(p, kind) == Step(p, "cv_rm", [loc[p] EXCEPT !.err = kind])

\* copy_file(raw_path, version_dir / "raw.csv")
CreateCopyRaw(p) ==
    /\ pc[p] = "cv_raw"
    /\ \/ /\ versions' = WriteFile(versions, loc[p].vh, "raw",
                                   Content("copy", call[p].raw, NoName, 0))
          /\ Step(p, "cv_cfg", loc[p])
       \/ /\ Fail(p, "OSError")
          /\ UNCHANGED versions
    /\ UNCHANGED <<lockFile, refsFile, tarball, layout, call, acquired, nops, menu, pipelineRuns, lastWrite>>

\* write_json(version_dir / "config.json", config_dict)
CreateWriteConfig(p) ==
    /\ pc[p] = "cv_cfg"
    /\ \/ /\ versions' = WriteFile(versions, loc[p].vh, "config",
                                   Content("config", NoName, call[p].cfg, 0))
          /\ Step(p, "cv_pipe", loc[p])
       \/ /\ Fail(p, "OSError")
          /\ UNCHANGED versions
    /\ UNCHANGED <<lockFile, refsFile, tarball, layout, call, acquired, nops, menu, pipelineRuns, lastWrite>>

\* pd.read_csv, the 'text' column check and apply_pipeline
CreatePipeline(p) ==
    /\ pc[p] = "cv_pipe"
    /\ IF ~HasTextColumn(call[p].raw)
       THEN Fail(p, "DataFormatError") /\ UNCHANGED pipelineRuns
       ELSE /\ pipelineRuns' = [pipelineRuns EXCEPT ![loc[p].vh] = @ + 1]
            /\ IF KnownSteps(call[p].cfg)
               THEN Step(p, "cv_proc", [loc[p] EXCEPT !.ran = TRUE])
               ELSE Step(p, "cv_rm", [loc[p] EXCEPT !.err = "InvalidConfigError",
                                                    !.ran = TRUE])
    /\ UNCHANGED <<fsVars, call, acquired, nops, menu, lastWrite>>

\* processed_df.to_csv(version_dir / "processed.csv")
CreateWriteProcessed(p) ==
    /\ pc[p] = "cv_proc"
    /\ \/ /\ DirExists(loc[p].vh)
          /\ versions' = WriteFile(versions, loc[p].vh, "processed",
                                   Pipeline(call[p].raw, call[p].cfg))
          /\ Step(p, "cv_meta", loc[p])
       \/ /\ Fail(p, "OSError")
          /\ UNCHANGED versions
    /\ UNCHANGED <<lockFile, refsFile, tarball, layout, call, acquired, nops, menu, pipelineRuns, lastWrite>>

\* compute_metrics and write_json(version_dir / "metadata.json", metadata)
CreateWriteMetadata(p) ==
    /\ pc[p] = "cv_meta"
    /\ \/ /\ versions' = WriteFile(versions, loc[p].vh, "metadata",
                                   Metadata(p, call[p].raw, call[p].cfg))
          /\ Step(p, "cv_rel", loc[p])
       \/ /\ Fail(p, "OSError")
          /\ UNCHANGED versions
    /\ UNCHANGED <<lockFile, refsFile, tarball, layout, call, acquired, nops, menu, pipelineRuns, lastWrite>>

\* shutil.rmtree, first part: unlink the entries found in the directory
RmtreeEntries(vs, h) == IF h \in DOMAIN vs THEN Put(vs, h, NoFiles) ELSE vs

\* a faulty variant: the directory itself is left behind
RmtreeDirKept(vs, h) == vs

\* shutil.rmtree, last part: rmdir, which fails (ignore_errors) on a
\* directory that got a new entry meanwhile
RmtreeDir(vs, h) == IF h \in DOMAIN vs /\ vs[h] = NoFiles THEN Drop(vs, h) ELSE vs

\* except Exception: if version_dir.exists(): shutil.rmtree(version_dir,
\* ignore_errors=True), the removal of the entries
CreateCleanupFiles(p) ==
    /\ pc[p] = "cv_rm"
    /\ versions' = RmtreeEntries(versions, loc[p].vh)
    /\ Step(p, IF DirExists(loc[p].vh) THEN "cv_rmdir" ELSE "unwind", loc[p])
    /\ UNCHANGED <<lockFile, refsFile, tarball, layout, call, acquired, nops, menu, pipelineRuns, lastWrite>>

\* rmtree's final rmdir: fails, ignored, when an entry was added meanwhile
CreateCleanupDir(p) ==
    /\ pc[p] = "cv_rmdir"
    /\ versions' = RmtreeDir(versions, loc[p].vh)
    /\ Step(p, "unwind", loc[p])
    /\ UNCHANGED <<lockFile, refsFile, tarball, layout, call, acquired, nops, menu, pipelineRuns, lastWrite>>

\* the create_version with-block ends normally
CreateRelease(p) ==
    /\ pc[p] = "cv_rel"
    /\ lockFile' = ReleasedFile(p, "create_version")
    /\ acquired' = [acquired EXCEPT ![p] = @ \ {"create_version"}]
    /\ Step(p, "cv_tags", [loc[p] EXCEPT !.ti = 1])
    /\ UNCHANGED <<versions, refsFile, tarball, layout, call, nops, menu, pipelineRuns, lastWrite>>

\* for t in tags: tag_version(version_hash, t, repo_path); return version_hash
CreateTags(p) ==
    /\ pc[p] = "cv_tags"
    /\ IF loc[p].ti <= Len(call[p].tags)
       THEN /\ Step(p, "rv_dir", [loc[p] EXCEPT !.id = loc[p].vh,
                                                !.tag = call[p].tags[loc[p].ti],
                                                !.ti = @ + 1])
            /\ UNCHANGED <<lockFile, acquired>>
       ELSE /\ lockFile' = ReleasedFile(p, "create_version")
            /\ acquired' = [acquired EXCEPT ![p] = @ \ {"create_version"}]
            /\ Done(p, "ok", loc[p].vh)
    /\ UNCHANGED <<versions, refsFile, tarball, layout, call, nops, menu, pipelineRuns, lastWrite>>

\* -------------------------------------------------------- import_version
\* the tarballs a caller can pass: foreign ones and those export_version wrote
TarballOf(c) == IF c.id = NoName THEN c.arch ELSE tarball[c.id]

\* member.name.startswith("/")
StartsWithSlash(path) == Len(path) > 0 /\ path[1] = "/"

\* ".." in member.name
HasDotDot(path) == \E i \in 1..(Len(path) - 1) : path[i] = "." /\ path[i + 1] = "."

\* a faulty variant: only absolute paths are refused
UnsafePathAbsoluteOnly(path) == StartsWithSlash(path)

\* member.name.startswith("/") or ".." in member.name
UnsafePath(path) == StartsWithSlash(path) \/ HasDotDot(path)

\* a faulty variant: the length of the name is not looked at
ValidHashNameAnyLength(nm) == \A i \in 1..Len(nm) : nm[i] \in Digits

\* len(version_hash) == 64 and all characters in "0123456789abcdef"
ValidHashName(nm) == Len(nm) = HashLen /\ \A i \in 1..Len(nm) : nm[i] \in Digits

\* import_version is called: the tarball is opened and its member names are
\* looked at
StartImport(p) ==
    /\ pc[p] \in {"idle", "done"}
    /\ nops[p] < MaxOps
    /\ \E c \in {m \in menu[p] : m.op = "import"} :
         /\ c.id # NoName => c.id \in DOMAIN tarball
         /\ call' = [call EXCEPT ![p] = [c EXCEPT !.arch = TarballOf(c)]]
         /\ IF UnsafePath(TarballOf(c).extra)
            THEN /\ pc' = [pc EXCEPT ![p] = "done"]
                 /\ result' = [result EXCEPT ![p] =
                                 [NoResult EXCEPT !.st = "ImportError_",
                                                  !.msg = "Unsafe path in tarball"]]
                 /\ loc' = [loc EXCEPT ![p] = NoLoc]
                 /\ UNCHANGED <<history, committed>>
            ELSE Begin(p, "iv_extract", NoLoc)
    /\ nops' = [nops EXCEPT ![p] = @ + 1]
    /\ UNCHANGED menu
    /\ UNCHANGED <<fsVars, acquired, pipelineRuns, lastWrite>>

\* tar.extractall(tmpdir) and the checks on what was extracted
ImportExtract(p) ==
    /\ pc[p] = "iv_extract"
    /\ IF call[p].arch.ndirs # 1
       THEN DoneWith(p, "ImportError_", NoName, "Expected exactly one directory", {})
       ELSE IF ~ValidHashName(call[p].arch.name)
       THEN DoneWith(p, "ImportError_", NoName, "Invalid version hash", {})
       ELSE Step(p, "iv_exists",
                 [loc[p] EXCEPT !.vh = call[p].arch.name,
                                !.existed = FullyPresent(call[p].arch.name),
                                !.snap = FilesOf(call[p].arch.name)])
    /\ UNCHANGED <<fsVars, call, acquired, nops, menu, pipelineRuns, lastWrite>>

\* a faulty variant: the check never finds the version
TargetExistsNever(p) == FALSE

\* target_dir.exists()
TargetExists(p) == DirExists(loc[p].vh)

\* if target_dir.exists(): raise ImportError_; else start acquiring the lock
ImportExists(p) ==
    /\ pc[p] = "iv_exists"
    /\ IF TargetExists(p)
       THEN DoneWith(p, "ImportError_", NoName, "already exists", {})
       ELSE Step(p, "acq", [loc[p] EXCEPT !.lk = "import_version"])
    /\ UNCHANGED <<fsVars, call, acquired, nops, menu, pipelineRuns, lastWrite>>

\* shutil.copytree: os.makedirs(dst) raises FileExistsError if dst exists
ImportMkdir(p) ==
    /\ pc[p] = "iv_mkdir"
    /\ IF DirExists(loc[p].vh)
       THEN /\ Raise(p, "FileExistsError")
            /\ UNCHANGED versions
       ELSE /\ versions' = Put(versions, loc[p].vh, NoFiles)
            /\ pc' = [pc EXCEPT ![p] = "iv_copy"]
            /\ loc' = [loc EXCEPT ![p].todo =
                         {a \in Artifacts : call[p].arch.files[a] # Missing}]
            /\ history' = [history EXCEPT ![loc[p].vh].imported = TRUE]
            /\ UNCHANGED <<result, committed>>
    /\ UNCHANGED <<lockFile, refsFile, tarball, layout, call, acquired, nops, menu, pipelineRuns, lastWrite>>

\* shutil.copytree: copy one entry, in directory order; an entry that cannot
\* be copied is noted and reported when all entries were tried
ImportCopy(p) ==
    /\ pc[p] = "iv_copy"
    /\ \E a \in loc[p].todo :
         IF DirExists(loc[p].vh)
         THEN /\ versions' = WriteFile(versions, loc[p].vh, a, call[p].arch.files[a])
              /\ Step(p, "iv_copy", [loc[p] EXCEPT !.todo = @ \ {a}])
         ELSE /\ UNCHANGED versions
              /\ Step(p, "iv_copy", [loc[p] EXCEPT !.todo = @ \ {a}, !.err = "ShutilError"])
    /\ UNCHANGED <<lockFile, refsFile, tarball, layout, call, acquired, nops, menu, pipelineRuns, lastWrite>>

\* copytree is through: raise its Error, or leave the with-block and return
ImportEnd(p) ==
    /\ pc[p] = "iv_copy"
    /\ loc[p].todo = {}
    /\ IF loc[p].err # "none"
       THEN /\ Step(p, "unwind", loc[p])
            /\ UNCHANGED <<lockFile, acquired>>
       ELSE /\ lockFile' = ReleasedFile(p, "import_version")
            /\ acquired' = [acquired EXCEPT ![p] = @ \ {"import_version"}]
            /\ Done(p, "ok", loc[p].vh)
    /\ UNCHANGED <<versions, refsFile, tarball, layout, call, nops, menu, pipelineRuns, lastWrite>>

\* -------------------------------------------------------- export_version
StartExport(p) ==
    /\ pc[p] \in {"idle", "done"}
    /\ nops[p] < MaxOps
    /\ \E c \in {m \in menu[p] : m.op = "export"} :
         /\ call' = [call EXCEPT ![p] = c]
         /\ Begin(p, "rv_dir", [NoLoc EXCEPT !.id = c.id])
    /\ nops' = [nops EXCEPT ![p] = @ + 1]
    /\ UNCHANGED menu
    /\ UNCHANGED <<fsVars, acquired, pipelineRuns, lastWrite>>

\* a faulty variant: metadata.json is not archived
TarAddNoMetadata(vs, h) ==
    ArchiveOf(h, [vs[h] EXCEPT !["metadata"] = Missing], 1, NoPath, vs[h])

\* tar.add(str(version_dir), arcname=version_hash): one directory named by
\* the hash with the files found in the version directory
TarAdd(vs, h) == ArchiveOf(h, vs[h], 1, NoPath, vs[h])

\* if not version_dir.exists(): raise; tar.add(version_dir, arcname=hash)
ExportTar(p) ==
    /\ pc[p] = "ex_tar"
    /\ IF DirExists(loc[p].res)
       THEN /\ tarball' = Put(tarball, loc[p].res, TarAdd(versions, loc[p].res))
            /\ Done(p, "ok", loc[p].res)
       ELSE /\ UNCHANGED tarball
            /\ Done(p, "VersionNotFoundError", NoName)
    /\ UNCHANGED <<lockFile, versions, refsFile, layout, call, acquired, nops, menu, pipelineRuns, lastWrite>>

\* ---------------------------------------------------------- load_version
StartLoad(p) ==
    /\ pc[p] \in {"idle", "done"}
    /\ nops[p] < MaxOps
    /\ \E c \in {m \in menu[p] : m.op = "load"} :
         /\ call' = [call EXCEPT ![p] = c]
         /\ Begin(p, "rv_dir", [NoLoc EXCEPT !.id = c.id])
    /\ nops' = [nops EXCEPT ![p] = @ + 1]
    /\ UNCHANGED menu
    /\ UNCHANGED <<fsVars, acquired, pipelineRuns, lastWrite>>

\* version_dir.exists(), data_file.exists(), pd.read_csv(data_file).  A
\* missing data file is reported with the resolved hash, a missing directory
\* without it.
LoadRead(p) ==
    /\ pc[p] = "lv_read"
    /\ IF ~DirExists(loc[p].res)
       THEN Done(p, "VersionNotFoundError", NoName)
       ELSE IF versions[loc[p].res][call[p].dtype] = Missing
       THEN Done(p, "VersionNotFoundError", loc[p].res)
       ELSE Done(p, "ok", loc[p].res)
    /\ UNCHANGED <<fsVars, call, acquired, nops, menu, pipelineRuns, lastWrite>>

\* ------------------------------------------------- FileLock used directly
\* lock = FileLock(lock_dir, name); lock.acquire()
StartLock(p) ==
    /\ pc[p] \in {"idle", "done"}
    /\ nops[p] < MaxOps
    /\ \E c \in {m \in menu[p] : m.op = "lock"} :
         /\ call' = [call EXCEPT ![p] = c]
         /\ Begin(p, "acq", [NoLoc EXCEPT !.lk = c.dtype])
    /\ nops' = [nops EXCEPT ![p] = @ + 1]
    /\ UNCHANGED menu
    /\ UNCHANGED <<fsVars, acquired, pipelineRuns, lastWrite>>

\* a faulty variant: release leaves _acquired set
ReleasedFlagKept(p, n) == acquired[p]

\* FileLock.release: _acquired is reset where the file is unlinked
ReleasedFlag(p, n) ==
    IF n \in acquired[p] /\ lockFile[n] # NoFile
    THEN acquired[p] \ {n}
    ELSE acquired[p]

\* lock.release()
ReleaseLock(p) ==
    /\ pc[p] = "held"
    /\ lockFile' = ReleasedFile(p, loc[p].lk)
    /\ acquired' = [acquired EXCEPT ![p] = ReleasedFlag(p, loc[p].lk)]
    /\ IF call[p].twice
       THEN Step(p, "released", loc[p])
       ELSE Done(p, "ok", NoName)
    /\ UNCHANGED <<versions, refsFile, tarball, layout, call, nops, menu, pipelineRuns, lastWrite>>

\* lock.release() called again on the same handle; the result records
\* whether a lock file was there when it was called
ReleaseAgain(p) ==
    /\ pc[p] = "released"
    /\ lockFile' = ReleasedFile(p, loc[p].lk)
    /\ acquired' = [acquired EXCEPT ![p] = ReleasedFlag(p, loc[p].lk)]
    /\ pc' = [pc EXCEPT ![p] = "done"]
    /\ result' = [result EXCEPT ![p] =
                    [NoResult EXCEPT !.st = "ok",
                                     !.existed = lockFile[loc[p].lk] # NoFile]]
    /\ loc' = [loc EXCEPT ![p] = NoLoc]
    /\ UNCHANGED <<versions, refsFile, tarball, layout, call, nops, menu, pipelineRuns,
                   lastWrite, history, committed>>

\* somebody removes a lock file by hand, taking it for one left behind by
\* a killed process; release finds out with lock_path.exists()
ManualRemove ==
    /\ \E n \in LockNames :
         /\ lockFile[n] # NoFile
         /\ lockFile' = [lockFile EXCEPT ![n] = NoFile]
    /\ UNCHANGED <<versions, refsFile, tarball, layout, pc, call, loc, acquired, result,
                   nops, menu, pipelineRuns, committed, lastWrite, history>>

\* --------------------------------------------------------- compute_metrics
\* a text is a sequence of characters; Space is the whitespace character
Space == 0

\* str.split(): the maximal runs of characters that are not whitespace
RECURSIVE SplitFrom(_, _)
SplitFrom(text, cur) ==
    IF text = << >> THEN (IF cur = << >> THEN << >> ELSE <<cur>>)
    ELSE IF Head(text) = Space
         THEN (IF cur = << >> THEN << >> ELSE <<cur>>) \o SplitFrom(Tail(text), << >>)
         ELSE SplitFrom(Tail(text), Append(cur, Head(text)))
Split(text) == SplitFrom(text, << >>)

\* texts.str.split().explode(): the tokens of all rows
AllTokens(rows) ==
    UNION {{Split(rows[i])[j] : j \in 1..Len(Split(rows[i]))} : i \in 1..Len(rows)}

RECURSIVE SumOf(_)
SumOf(ns) == IF ns = << >> THEN 0 ELSE Head(ns) + SumOf(Tail(ns))

\* the length of a row: len(x.split()) if is_tokenized, else str.len()
RowLength(text, tok) == IF tok THEN Len(Split(text)) ELSE Len(text)

\* compute_metrics(df, is_tokenized=tok) for a frame with the text column rows
compute_metrics(rows, tok) ==
    [num_samples |-> Len(rows),
     num_unique_texts |-> Cardinality({rows[i] : i \in 1..Len(rows)}),
     vocab_size |-> Cardinality(AllTokens(rows)),
     avg_text_length |->
        Mean(SumOf([i \in 1..Len(rows) |-> RowLength(rows[i], tok)]), Len(rows))]

\* a caller computes the metrics of a frame
ComputeMetrics(p) ==
    /\ pc[p] \in {"idle", "done"}
    /\ nops[p] < MaxOps
    /\ \E c \in {m \in menu[p] : m.op = "metrics"} :
         /\ call' = [call EXCEPT ![p] = c]
         /\ result' = [result EXCEPT ![p] =
                         [NoResult EXCEPT !.st = "ok",
                                          !.metrics = compute_metrics(c.rows, c.flag)]]
    /\ pc' = [pc EXCEPT ![p] = "done"]
    /\ nops' = [nops EXCEPT ![p] = @ + 1]
    /\ UNCHANGED <<fsVars, loc, acquired, menu, pipelineRuns, lastWrite, history, committed>>

\* --------------------------------------------------- _compute_data_overlap
MaxExamples == 5

\* set(df["text"].astype(str).tolist())
TextSet(rows) == {rows[i] : i \in 1..Len(rows)}

\* a faulty variant: every exclusive text is listed
ExamplesUncut(only) == {only}

\* list(only)[:5]: the first five of a set in the order the set happens to
\* have, that is any five of its elements, or all if there are fewer (the
\* examples are kept as the set of the texts listed)
Examples(only) ==
    {ex \in SUBSET only : Cardinality(ex) = Min(MaxExamples, Cardinality(only))}

\* the result of _compute_data_overlap for two frames with a text column,
\* with the examples ex1 and ex2
DataOverlap(rows1, rows2, ex1, ex2) ==
    LET texts1 == TextSet(rows1)
        texts2 == TextSet(rows2)
        intersection == texts1 \cap texts2
        union == texts1 \cup texts2
    IN [jaccard |-> IF union # {} THEN Mean(Cardinality(intersection), Cardinality(union))
                                  ELSE Mean(1, 1),
        common |-> Cardinality(intersection),
        only1 |-> Cardinality(texts1 \ texts2),
        only2 |-> Cardinality(texts2 \ texts1),
        examples1 |-> ex1, examples2 |-> ex2]

\* a caller computes the overlap of two frames
ComputeDataOverlap(p) ==
    /\ pc[p] \in {"idle", "done"}
    /\ nops[p] < MaxOps
    /\ \E c \in {m \in menu[p] : m.op = "overlap"} :
         /\ call' = [call EXCEPT ![p] = c]
         /\ \E ex1 \in Examples(TextSet(c.rows) \ TextSet(c.rows2)) :
              \E ex2 \in Examples(TextSet(c.rows2) \ TextSet(c.rows)) :
                 result' = [result EXCEPT ![p] =
                              [NoResult EXCEPT !.st = "ok",
                                 !.overlap = DataOverlap(c.rows, c.rows2, ex1, ex2)]]
    /\ pc' = [pc EXCEPT ![p] = "done"]
    /\ nops' = [nops EXCEPT ![p] = @ + 1]
    /\ UNCHANGED <<fsVars, loc, acquired, menu, pipelineRuns, lastWrite, history, committed>>

\* --------------------------------------------------- _compute_metrics_diff
\* float(v) of an int or a float
AsFloat(v) == FloatVal(v.sum, v.n)
IsNaN(x) == x.n = 0
NaN == FloatVal(0, 0)
\* x - y, x * k of floats; NaN if an operand is NaN
Minus(x, y) ==
    IF IsNaN(x) \/ IsNaN(y) THEN NaN ELSE FloatVal(x.sum * y.n - y.sum * x.n, x.n * y.n)
Times(x, k) == IF IsNaN(x) THEN NaN ELSE FloatVal(x.sum * k, x.n)
\* x / y of floats: raises ZeroDivisionError if y is 0.0
DivisionByZero(x, y) == ~IsNaN(y) /\ y.sum = 0
Quotient(x, y) ==
    IF IsNaN(x) \/ IsNaN(y) THEN NaN
    ELSE IF y.sum > 0 THEN FloatVal(x.sum * y.n, x.n * y.sum)
    ELSE FloatVal(0 - x.sum * y.n, 0 - x.n * y.sum)

\* a faulty variant: the percentage is computed whatever v1 is
NotZeroUnchecked(x) == TRUE

\* float(v1_val) != 0 (true of NaN)
NotZero(x) == IsNaN(x) \/ x.sum # 0

\* the entry of one key
DiffEntry(v1, v2) ==
    IF v1 = None /\ v2 = None THEN NoEntry
    ELSE IF v1 = None \/ v2 = None
    THEN [NoEntry EXCEPT !.has = TRUE, !.v1 = v1, !.v2 = v2]
    ELSE LET change == Minus(AsFloat(v2), AsFloat(v1))
         IN [has |-> TRUE, v1 |-> v1, v2 |-> v2, change |-> change,
             pct_change |-> IF NotZero(AsFloat(v1)) /\ ~DivisionByZero(change, AsFloat(v1))
                            THEN Times(Quotient(change, AsFloat(v1)), 100)
                            ELSE None]

\* the division of line 164 is reached with a zero divisor for some key
DiffRaises(meta1, meta2) ==
    \E k \in NumericKeys :
        /\ meta1[k] # None /\ meta2[k] # None
        /\ NotZero(AsFloat(meta1[k]))
        /\ DivisionByZero(Minus(AsFloat(meta2[k]), AsFloat(meta1[k])), AsFloat(meta1[k]))

_compute_metrics_diff(meta1, meta2) == [k \in NumericKeys |-> DiffEntry(meta1[k], meta2[k])]

\* a caller computes the metrics diff of two metadata records
ComputeMetricsDiff(p) ==
    /\ pc[p] \in {"idle", "done"}
    /\ nops[p] < MaxOps
    /\ \E c \in {m \in menu[p] : m.op = "diff"} :
         /\ call' = [call EXCEPT ![p] = c]
         /\ result' = [result EXCEPT ![p] =
                         IF DiffRaises(c.meta1, c.meta2)
                         THEN [NoResult EXCEPT !.st = "ZeroDivisionError"]
                         ELSE [NoResult EXCEPT !.st = "ok",
                                  !.diff = _compute_metrics_diff(c.meta1, c.meta2)]]
    /\ pc' = [pc EXCEPT ![p] = "done"]
    /\ nops' = [nops EXCEPT ![p] = @ + 1]
    /\ UNCHANGED <<fsVars, loc, acquired, menu, pipelineRuns, lastWrite, history, committed>>

\* ---------------------------------------------------- compare_versions_raw
\* the metadata.json that create_version writes for the metrics m
MetaOf(m) ==
    [num_samples |-> IntVal(m.num_samples), num_unique_texts |-> IntVal(m.num_unique_texts),
     vocab_size |-> IntVal(m.vocab_size),
     avg_text_length |-> FloatVal(m.avg_text_length.sum, m.avg_text_length.n)]
\* the rows of the text column of a processed.csv, and whether it has one
RowsOf(c) == IF c.r = NoName THEN << >> ELSE <<c.r>>
HasText(c) == c.by # "foreign"
\* read_json(metadata.json) if it exists, else {}
MetaRecord(c) == IF c = Missing THEN NoMeta ELSE MetaOf(compute_metrics(RowsOf(c), FALSE))

\* compare_versions_raw(v1, v2, repo_path) is called: _validate_repo, then
\* resolve_version(v1)
StartCompare(p) ==
    /\ pc[p] \in {"idle", "done"}
    /\ nops[p] < MaxOps
    /\ \E c \in {m \in menu[p] : m.op = "compare"} :
         /\ call' = [call EXCEPT ![p] = c]
         /\ IF ~IsFluxRepo
            THEN /\ pc' = [pc EXCEPT ![p] = "done"]
                 /\ result' = [result EXCEPT ![p] =
                                 [NoResult EXCEPT !.st = "RepositoryNotFoundError"]]
                 /\ loc' = [loc EXCEPT ![p] = NoLoc]
                 /\ UNCHANGED <<history, committed>>
            ELSE Begin(p, "rv_dir", [NoLoc EXCEPT !.id = c.id])
    /\ nops' = [nops EXCEPT ![p] = @ + 1]
    /\ UNCHANGED <<fsVars, acquired, menu, pipelineRuns, lastWrite>>

\* a resolve_version of the comparison has returned: the one of v1 (ti = 0),
\* of v2 (1), or the one inside load_version of v1_hash (2) or v2_hash (3)
CompareResolved(p) ==
    /\ pc[p] = "cmp_res"
    /\ CASE loc[p].ti = 0 ->
               Step(p, "rv_dir", [loc[p] EXCEPT !.h1 = loc[p].res, !.id = call[p].id2,
                                                !.ti = 1])
         [] loc[p].ti = 1 ->
               Step(p, "cmp_read", [loc[p] EXCEPT !.h2 = loc[p].res])
         [] OTHER -> Step(p, "cmp_load", loc[p])
    /\ UNCHANGED <<fsVars, call, acquired, nops, menu, pipelineRuns, lastWrite>>

\* the records in the order the code reads them: config.json of v1 and v2,
\* metadata.json of v1 and v2
RecordAt(p, k) ==
    FilesOf(IF k \in {1, 3} THEN loc[p].h1 ELSE loc[p].h2)[IF k <= 2 THEN "config" ELSE "metadata"]

\* read_json(path) if path.exists() else {}: the next record; after the
\* last one _compute_data_overlap calls load_version(v1_hash)
CompareRead(p) ==
    /\ pc[p] = "cmp_read"
    /\ LET recs == Append(loc[p].recs, RecordAt(p, Len(loc[p].recs) + 1))
       IN IF Len(recs) < 4
          THEN Step(p, "cmp_read", [loc[p] EXCEPT !.recs = recs])
          ELSE Step(p, "rv_dir", [loc[p] EXCEPT !.recs = recs, !.id = loc[p].h1, !.ti = 2])
    /\ UNCHANGED <<fsVars, call, acquired, nops, menu, pipelineRuns, lastWrite>>

\* load_version after its resolve_version: version_dir.exists(),
\* data_file.exists(), pd.read_csv(data_file); then load_version(v2_hash)
CompareLoad(p) ==
    /\ pc[p] = "cmp_load"
    /\ IF ~DirExists(loc[p].res) \/ FilesOf(loc[p].res)["processed"] = Missing
       THEN Raise(p, "VersionNotFoundError")
       ELSE IF loc[p].ti = 2
       THEN Step(p, "rv_dir",
                 [loc[p] EXCEPT !.data = Append(@, FilesOf(loc[p].res)["processed"]),
                                !.id = loc[p].h2, !.ti = 3])
       ELSE Step(p, "cmp_ret",
                 [loc[p] EXCEPT !.data = Append(@, FilesOf(loc[p].res)["processed"])])
    /\ UNCHANGED <<fsVars, call, acquired, nops, menu, pipelineRuns, lastWrite>>

\* _compute_data_overlap returns {}: a load failed, or a frame has no text
\* column
OverlapEmpty(p) ==
    \/ loc[p].err = "caught"
    \/ \E i \in 1..Len(loc[p].data) : ~HasText(loc[p].data[i])

\* the ComparisonReport is returned
CompareReturn(p) ==
    /\ pc[p] = "cmp_ret"
    /\ pc' = [pc EXCEPT ![p] = "done"]
    /\ LET report == [NoResult EXCEPT
                        !.st = "ok", !.val = loc[p].h1, !.listed = {loc[p].h2},
                        !.diff = _compute_metrics_diff(MetaRecord(loc[p].recs[3]),
                                                       MetaRecord(loc[p].recs[4])),
                        !.noOverlap = OverlapEmpty(p)]
       IN IF OverlapEmpty(p)
          THEN result' = [result EXCEPT ![p] = report]
          ELSE \E ex1 \in Examples(TextSet(RowsOf(loc[p].data[1]))
                                     \ TextSet(RowsOf(loc[p].data[2]))) :
                 \E ex2 \in Examples(TextSet(RowsOf(loc[p].data[2]))
                                        \ TextSet(RowsOf(loc[p].data[1]))) :
                    result' = [result EXCEPT ![p] =
                                 [report EXCEPT !.overlap =
                                    DataOverlap(RowsOf(loc[p].data[1]),
                                                RowsOf(loc[p].data[2]), ex1, ex2)]]
    /\ loc' = [loc EXCEPT ![p] = NoLoc]
    /\ UNCHANGED <<fsVars, call, acquired, nops, menu, pipelineRuns, lastWrite,
                   history, committed>>

CompareStep(p) ==
    CompareResolved(p) \/ CompareRead(p) \/ CompareLoad(p) \/ CompareReturn(p)

\* -------------------------------------------------------------- init_repo
\* init_repo is called: a valid store is returned as it is
StartInitRepo(p) ==
    /\ pc[p] \in {"idle", "done"}
    /\ nops[p] < MaxOps
    /\ InitRepoCall \in menu[p]
    /\ call' = [call EXCEPT ![p] = InitRepoCall]
    /\ IF IsFluxRepo
       THEN /\ pc' = [pc EXCEPT ![p] = "done"]
            /\ result' = [result EXCEPT ![p] =
                            [NoResult EXCEPT !.st = "ok", !.existed = TRUE]]
            /\ loc' = [loc EXCEPT ![p] = NoLoc]
            /\ UNCHANGED <<history, committed>>
       ELSE Begin(p, "ir_versions", [NoLoc EXCEPT !.had = refsFile.st # "absent",
                                                  !.refs = refsFile.tab])
    /\ nops' = [nops EXCEPT ![p] = @ + 1]
    /\ UNCHANGED <<fsVars, acquired, menu, pipelineRuns, lastWrite>>

\* ensure_directory(repo_path / "versions")
InitRepoVersions(p) ==
    /\ pc[p] = "ir_versions"
    /\ layout' = layout \cup {"versions"}
    /\ Step(p, "ir_locks", loc[p])
    /\ UNCHANGED <<lockFile, versions, refsFile, tarball, call, acquired, nops, menu,
                   pipelineRuns, lastWrite>>

\* ensure_directory(repo_path / "locks")
InitRepoLocks(p) ==
    /\ pc[p] = "ir_locks"
    /\ layout' = layout \cup {"locks"}
    /\ Step(p, "ir_refs", loc[p])
    /\ UNCHANGED <<lockFile, versions, refsFile, tarball, call, acquired, nops, menu,
                   pipelineRuns, lastWrite>>

\* a faulty variant: refs.json is taken to be absent
RefsExistsNever == FALSE

\* refs_path.exists()
RefsExists == refsFile.st # "absent"

\* if not refs_path.exists(): write_json(refs_path, {}); return repo_path
InitRepoRefs(p) ==
    /\ pc[p] = "ir_refs"
    /\ IF RefsExists
       THEN Done(p, "ok", NoName)
       ELSE Step(p, "ir_open", loc[p])
    /\ UNCHANGED <<fsVars, call, acquired, nops, menu, pipelineRuns, lastWrite>>

\* write_json: open(path, "w") creates or truncates refs.json
InitRepoOpen(p) ==
    /\ pc[p] = "ir_open"
    /\ refsFile' = [st |-> "trunc", tab |-> EmptyTab]
    /\ Step(p, "ir_dump", loc[p])
    /\ UNCHANGED <<lockFile, versions, tarball, layout, call, acquired, nops, menu,
                   pipelineRuns, lastWrite>>

\* write_json: json.dump writes {}; init_repo returns
InitRepoDump(p) ==
    /\ pc[p] = "ir_dump"
    /\ refsFile' = [st |-> "ok", tab |-> EmptyTab]
    /\ lastWrite' = EmptyTab
    /\ Done(p, "ok", NoName)
    /\ UNCHANGED <<lockFile, versions, tarball, layout, call, acquired, nops, menu,
                   pipelineRuns>>

InitRepoStep(p) ==
    \/ InitRepoVersions(p) \/ InitRepoLocks(p) \/ InitRepoRefs(p)
    \/ InitRepoOpen(p) \/ InitRepoDump(p)

\* ---------------------------------------------------------- list_versions
\* the order of two directory names: that of their strings
RECURSIVE Less(_, _)
Less(a, b) ==
    IF a = << >> THEN b # << >>
    ELSE IF b = << >> THEN FALSE
    ELSE IF Head(a) # Head(b) THEN Head(a) < Head(b)
    ELSE Less(Tail(a), Tail(b))

\* sorted(versions_dir.iterdir())
RECURSIVE Sorted(_)
Sorted(S) ==
    IF S = {} THEN << >>
    ELSE LET m == CHOOSE x \in S : \A y \in S \ {x} : Less(x, y)
         IN <<m>> \o Sorted(S \ {m})

\* a faulty variant: a later tag of a hash replaces the earlier one
HashToTagsLastOnly(refs, h) ==
    IF \E t \in DOMAIN refs : refs[t] = h
    THEN {CHOOSE t \in DOMAIN refs : refs[t] = h}
    ELSE {}

\* hash_to_tags.setdefault(h, []).append(tag_name) over refs.items(), then
\* hash_to_tags.get(vh, [])
HashToTags(refs, h) == {t \in DOMAIN refs : refs[t] = h}

\* list_versions is called: _validate_repo
StartList(p) ==
    /\ pc[p] \in {"idle", "done"}
    /\ nops[p] < MaxOps
    /\ ListCall \in menu[p]
    /\ call' = [call EXCEPT ![p] = ListCall]
    /\ IF IsFluxRepo
       THEN Begin(p, "lv_refs", NoLoc)
       ELSE /\ pc' = [pc EXCEPT ![p] = "done"]
            /\ result' = [result EXCEPT ![p] =
                            [NoResult EXCEPT !.st = "RepositoryNotFoundError"]]
            /\ loc' = [loc EXCEPT ![p] = NoLoc]
            /\ UNCHANGED <<history, committed>>
    /\ nops' = [nops EXCEPT ![p] = @ + 1]
    /\ UNCHANGED <<fsVars, acquired, menu, pipelineRuns, lastWrite>>

\* refs = _load_refs(repo_path)
ListLoadRefs(p) ==
    /\ pc[p] = "lv_refs"
    /\ IF refsFile.st = "trunc"
       THEN Raise(p, "JSONDecodeError")
       ELSE Step(p, "lv_iter", [loc[p] EXCEPT !.refs = refsFile.tab])
    /\ UNCHANGED <<fsVars, call, acquired, nops, menu, pipelineRuns, lastWrite>>

\* sorted(versions_dir.iterdir())
ListIterdir(p) ==
    /\ pc[p] = "lv_iter"
    /\ Step(p, "lv_entry", [loc[p] EXCEPT !.dirs = Sorted(VersionDirs)])
    /\ UNCHANGED <<fsVars, call, acquired, nops, menu, pipelineRuns, lastWrite>>

\* one round of the loop: skip what is not a directory, read metadata.json
\* and config.json where they exist, append the VersionInfo; after the last
\* round list_versions returns
ListEntry(p) ==
    /\ pc[p] = "lv_entry"
    /\ IF loc[p].dirs = << >>
       THEN Done(p, "ok", NoName)
       ELSE LET vh == Head(loc[p].dirs)
                info == [version_hash |-> vh,
                         metrics |-> IF DirExists(vh) THEN versions[vh]["metadata"] ELSE Missing,
                         tags |-> HashToTags(loc[p].refs, vh)]
            IN Step(p, "lv_entry",
                    [loc[p] EXCEPT !.dirs = Tail(@),
                                   !.entries = IF DirExists(vh) THEN Append(@, info) ELSE @])
    /\ UNCHANGED <<fsVars, call, acquired, nops, menu, pipelineRuns, lastWrite>>

ListStep(p) == ListLoadRefs(p) \/ ListIterdir(p) \/ ListEntry(p)

\* ------------------------------------------------------------- the system
LockStep(p) == AcquireOk(p) \/ AcquireRetry(p) \/ AcquireTimeout(p) \/ Unwind(p)

ResolveStep(p) == ResolveExact(p) \/ ResolveTag(p) \/ ResolvePrefix(p)

TagStep(p) == TagLock(p) \/ TagLoad(p) \/ TagOpen(p) \/ TagDump(p) \/ TagRelease(p)

CreateStep(p) ==
    \/ CreateCheck(p) \/ CreateMkdir(p) \/ CreateCopyRaw(p)
    \/ CreateWriteConfig(p) \/ CreatePipeline(p) \/ CreateWriteProcessed(p)
    \/ CreateWriteMetadata(p) \/ CreateCleanupFiles(p) \/ CreateCleanupDir(p)
    \/ CreateRelease(p) \/ CreateTags(p)

ImportStep(p) == ImportExtract(p) \/ ImportExists(p) \/ ImportMkdir(p) \/ ImportCopy(p) \/ ImportEnd(p)

\* callers that use FileLock directly, one lock file possibly left behind
InitLock == \E st \in {NoStale, {"test_lock"}} : InitWith(MenuLock, st)
NextLock ==
    \E p \in Procs :
        \/ StartLock(p) \/ ReleaseLock(p)
        \/ AcquireOk(p) \/ AcquireRetry(p) \/ AcquireTimeout(p)
SpecLock == InitLock /\ [][NextLock]_vars

\* callers that use FileLock with their own timeout and retry interval (in
\* tenths of a second), some of them releasing twice
MenuAcquire ==
    Menu({LockCallWith("test_lock", 5, 1, TRUE)},
         {LockCallWith("test_lock", 5, 1, FALSE), LockCallWith("test_lock", 30, 20, FALSE)},
         {LockCallWith("test_lock", 5, 2, TRUE)})
InitAcquire == \E st \in {NoStale, {"test_lock"}} : InitWith(MenuAcquire, st)
NextAcquire ==
    \E p \in Procs :
        \/ StartLock(p) \/ ReleaseLock(p) \/ ReleaseAgain(p)
        \/ AcquireOk(p) \/ AcquireRetry(p) \/ AcquireTimeout(p)
SpecAcquire == InitAcquire /\ [][NextAcquire]_vars

\* the same callers, and somebody who removes lock files by hand
NextManual == NextAcquire \/ ManualRemove
SpecManual == InitAcquire /\ [][NextManual]_vars

\* a caller that initialises a path and callers that create versions there
MenuLayout ==
    Menu({InitRepoCall},
         {CreateCall(RawAbsent, CfgNoPipeline, << >>), CreateCall(RawGood, CfgNoPipeline, << >>),
          CreateCall(RawGood, CfgGood, << >>)},
         {CreateCall(RawAbsent, CfgGood, << >>), CreateCall(RawNoText, CfgGood, << >>)})
InitLayout == InitPaths(MenuLayout, {{}, {H1}})
NextLayout ==
    \E p \in Procs :
        \/ StartInitRepo(p) \/ InitRepoStep(p)
        \/ StartCreate(p) \/ CreateStep(p)
        \/ AcquireOk(p) \/ AcquireRetry(p) \/ AcquireTimeout(p)
SpecLayout == InitLayout /\ [][NextLayout]_vars

\* callers that list the versions of a path while another initialises it
MenuList == Menu({ListCall}, {ListCall}, {InitRepoCall})
InitList == InitPaths(MenuList, {{}, {H3}, {H1, H2, H3}})
NextList ==
    \E p \in Procs :
        \/ StartList(p) \/ ListStep(p)
        \/ StartInitRepo(p) \/ InitRepoStep(p)
SpecList == InitList /\ [][NextList]_vars

\* callers that create versions from configs given in several key orders
CfgVariants ==
    {CfgGood, CfgFull, CfgFullReordered, CfgFullInnerSwapped, CfgFullOtherValue,
     CfgFullOtherName}
InitHasher ==
    \E c1 \in {CfgFull, CfgFullOtherName} : \E c2 \in CfgVariants : \E r2 \in RawFiles :
        InitWith(Menu({CreateCall(RawGood, c1, << >>)}, {CreateCall(r2, c2, << >>)}, {}),
                 NoStale)
NextHasher ==
    \E p \in Procs :
        \/ StartCreate(p) \/ CreateStep(p)
        \/ AcquireOk(p) \/ AcquireRetry(p) \/ AcquireTimeout(p)
SpecHasher == InitHasher /\ [][NextHasher]_vars

\* callers that compute the metrics of frames of up to two rows, with the
\* flag set and not set
Texts == {<<1>>, <<1, 2>>, <<1, Space, 2>>, <<Space, 1>>, <<2, Space, 1, Space>>}
Frames == {<<t>> : t \in Texts} \cup {<<t, u>> : t \in Texts, u \in {<<1>>, <<1, Space, 2>>}}
InitMetrics ==
    \E f \in Frames : \E g \in {<<t>> : t \in Texts} :
        InitWith(Menu({MetricsCall(f, TRUE), MetricsCall(f, FALSE)},
                      {MetricsCall(f, FALSE), MetricsCall(g, TRUE)},
                      {MetricsCall(g, FALSE)}), NoStale)
NextMetrics == \E p \in Procs : ComputeMetrics(p)
SpecMetrics == InitMetrics /\ [][NextMetrics]_vars

\* callers that compute the overlap of two processed frames: empty ones, ones
\* with repeated rows, the frames a b c and b c d, and one of seven texts
FrameOf(ids) == [i \in 1..Len(ids) |-> <<ids[i]>>]
OverlapFrames ==
    {FrameOf(<< >>), FrameOf(<<1, 2, 3>>), FrameOf(<<2, 3, 4>>), FrameOf(<<1, 1, 2>>),
     FrameOf(<<1, 2, 3, 4, 5, 6, 7>>), FrameOf(<<3>>)}
InitCompare ==
    \E f \in OverlapFrames : \E g \in OverlapFrames :
        InitWith(Menu({OverlapCall(f, g)}, {OverlapCall(g, f)}, {OverlapCall(f, f)}), NoStale)
NextCompare == \E p \in Procs : ComputeDataOverlap(p)
SpecCompare == InitCompare /\ [][NextCompare]_vars

\* metadata records: the metrics of frames (an empty frame among them, whose
\* mean length is NaN), of a frame without a text column, a record without
\* the vocabulary size, and no record
MetaNoText == [MetaOf(NoMetrics) EXCEPT !.num_samples = IntVal(2), !.avg_text_length = FloatVal(0, 1)]
DiffFrames == {<< >>, <<<<Space>>>>, <<<<1>>>>, <<<<1, Space, 2>>, <<1>>>>,
               <<<<1, 2>>, <<1, 2>>, <<2, Space, 1, Space>>, <<1>>, <<Space, 1>>>>}
Metas == {MetaOf(compute_metrics(f, tok)) : f \in DiffFrames, tok \in BOOLEAN}
         \cup {MetaNoText, NoMeta,
               [MetaOf(compute_metrics(<<<<1>>>>, TRUE)) EXCEPT !.vocab_size = None]}
\* a store whose versions hold the files vs[h], with the ref table tab
InitFiles(m, vs, tab) ==
    /\ lockFile = [n \in LockNames |-> NoFile]
    /\ versions = vs
    /\ refsFile = [st |-> "ok", tab |-> tab]
    /\ tarball = [h \in {} |-> NoArchive]
    /\ layout = {"versions", "locks"}
    /\ pc = [p \in Procs |-> "idle"]
    /\ call = [p \in Procs |-> NoCall]
    /\ loc = [p \in Procs |-> NoLoc]
    /\ acquired = [p \in Procs |-> {}]
    /\ result = [p \in Procs |-> NoResult]
    /\ nops = [p \in Procs |-> 0]
    /\ menu = m
    /\ pipelineRuns = [h \in HashNames |-> 0]
    /\ committed = [h \in {k \in DOMAIN vs : vs[k] = StoredFiles(k)} |-> vs[h]]
    /\ lastWrite = tab
    /\ history = [h \in HashNames |-> NoHistory]

\* the files of a version without some of its artifacts, and those of a
\* version imported from a foreign archive
Without(h, gone) == [a \in Artifacts |-> IF a \in gone THEN Missing ELSE StoredFiles(h)[a]]
FileSets(h) == {StoredFiles(h), Without(h, {"config"}), Without(h, {"metadata"}),
                Without(h, {"processed"}), Without(h, {"config", "metadata", "processed"}),
                ForeignFiles}

\* callers that compare versions of a store in which version H3 may lack
\* records and the tag may name a version that is not there
MenuReport == Menu({CompareCall(H1, H3), CompareCall(TagMain, PrefixH1)},
                   {CompareCall(H3, TagMain), CompareCall(H3, H3)},
                   {})
InitReport ==
    \E f1 \in {StoredFiles(H1), Without(H1, {"metadata"})} : \E f3 \in FileSets(H3) :
        \E tab \in Tables({TagMain}, {H1, H2, H3}) :
            InitFiles(MenuReport, [h \in {H1, H3} |-> IF h = H1 THEN f1 ELSE f3], tab)
NextReport ==
    \E p \in Procs : StartCompare(p) \/ ResolveStep(p) \/ CompareStep(p)
SpecReport == InitReport /\ [][NextReport]_vars

\* a caller that compares while another tags and a third creates a version
\* with a tag
MenuBusy == Menu({CompareCall(H1, H3), CompareCall(TagMain, H3)},
                 {TagCall(H3, TagMain)},
                 {CreateCall(RawGood, CfgGood, <<TagV1>>)})
InitBusy == InitStore(MenuBusy, NoStale, {H3}, EmptyTab)
NextBusy ==
    \E p \in Procs :
        \/ StartCompare(p) \/ StartTag(p) \/ StartCreate(p)
        \/ LockStep(p) \/ ResolveStep(p) \/ CompareStep(p) \/ TagStep(p) \/ CreateStep(p)
SpecBusy == InitBusy /\ [][NextBusy]_vars

\* callers that import archives of the same version at the same time
MenuTwoImports == Menu({ImportCall(ExtFull)}, {ImportCall(ExtFull)}, {ImportCall(ExtPartial)})
InitTwoImports == InitWith(MenuTwoImports, NoStale)
NextTwoImports == \E p \in Procs : StartImport(p) \/ LockStep(p) \/ ImportStep(p)
SpecTwoImports == InitTwoImports /\ [][NextTwoImports]_vars

\* a caller that creates a version whose pipeline names an unknown step,
\* while another tags that version
MenuDangling == Menu({CreateCall(RawGood, CfgBadStep, << >>),
                      CreateCall(RawGood, CfgGood, <<TagV1>>)},
                     {TagCall(VersionHashOf(RawGood, CfgBadStep), TagMain),
                      TagCall(H1, TagMain)},
                     {})
InitDangling == InitWith(MenuDangling, NoStale)
NextDangling ==
    \E p \in Procs :
        \/ StartCreate(p) \/ StartTag(p)
        \/ LockStep(p) \/ ResolveStep(p) \/ CreateStep(p) \/ TagStep(p)
SpecDangling == InitDangling /\ [][NextDangling]_vars

\* a caller that creates a version with two tags while another tags a
\* version that is in the store and copies that tag
MenuTagFailure == Menu({CreateCall(RawGood, CfgGood, <<TagMain, TagV1>>)},
                       {TagCall(H3, TagMain), TagCall(TagMain, TagV1)},
                       {})
InitTagFailure == InitStore(MenuTagFailure, NoStale, {H3}, EmptyTab)
NextTagFailure ==
    \E p \in Procs :
        \/ StartCreate(p) \/ StartTag(p)
        \/ LockStep(p) \/ ResolveStep(p) \/ CreateStep(p) \/ TagStep(p)
SpecTagFailure == InitTagFailure /\ [][NextTagFailure]_vars

\* a caller that moves a tag while others read the ref table without a lock
MenuRefReads == Menu({TagCall(H1, TagMain)}, {ResolveCall(TagMain), ResolveCall(PrefixH1)},
                     {ListCall})
InitRefReads == InitStore(MenuRefReads, NoStale, {H1, H3}, [t \in {TagMain} |-> H3])
NextRefReads ==
    \E p \in Procs :
        \/ StartTag(p) \/ StartResolve(p) \/ StartList(p)
        \/ AcquireOk(p) \/ ResolveStep(p) \/ ResolveReturn(p) \/ TagStep(p) \/ ListStep(p)
SpecRefReads == InitRefReads /\ [][NextRefReads]_vars

InitDiff ==
    \E m1 \in Metas : \E m2 \in Metas :
        InitWith(Menu({DiffCall(m1, m2)}, {DiffCall(m2, m1)}, {DiffCall(m1, m1)}), NoStale)
NextDiff == \E p \in Procs : ComputeMetricsDiff(p)
SpecDiff == InitDiff /\ [][NextDiff]_vars

\* the same callers, each of them running: a caller inside acquire goes on
\* with its loop (it is a thread of its own); holders need not release
AcquireLoop(p) == AcquireOk(p) \/ AcquireRetry(p) \/ AcquireTimeout(p)
SpecAcquireLive ==
    InitAcquire /\ [][NextAcquire]_vars /\ \A p \in Procs : WF_vars(AcquireLoop(p))

\* callers that create versions while another loads them
InitCreate == InitWith(MenuCreate, NoStale)
NextCreate ==
    \E p \in Procs :
        \/ StartCreate(p) \/ StartLoad(p)
        \/ LockStep(p) \/ ResolveStep(p) \/ CreateStep(p) \/ LoadRead(p)
SpecCreate == InitCreate /\ [][NextCreate]_vars

\* callers that create and import the same version
InitImport == InitWith(MenuImport, NoStale)
NextImport ==
    \E p \in Procs :
        \/ StartCreate(p) \/ StartImport(p)
        \/ LockStep(p) \/ CreateStep(p) \/ ImportStep(p)
SpecImport == InitImport /\ [][NextImport]_vars

\* callers that create versions with tags and tag versions
InitTags == InitWith(MenuTags, NoStale)
NextTags ==
    \E p \in Procs :
        \/ StartCreate(p) \/ StartTag(p)
        \/ LockStep(p) \/ ResolveStep(p) \/ CreateStep(p) \/ TagStep(p)
SpecTags == InitTags /\ [][NextTags]_vars

\* callers that resolve ids in a store that holds some of three versions and
\* tags named like a version, like the first digit of one, or like neither
InitResolve ==
    \E vs \in SUBSET {H1, H2, H3} :
        \E tab \in Tables({H1, PrefixH1, TagMain}, vs) :
            InitStore(MenuResolve, NoStale, vs, tab)
NextResolve ==
    \E p \in Procs : StartResolve(p) \/ ResolveStep(p) \/ ResolveReturn(p)
SpecResolve == InitResolve /\ [][NextResolve]_vars

\* callers that resolve ids, the empty one among them, in a store whose tags
\* name versions that are there
MenuResolveAny == Menu({ResolveCall(NoName), ResolveCall(H1)},
                       {ResolveCall(PrefixH1), ResolveCall(TagMain)},
                       {})
InitResolveAny ==
    \E vs \in SUBSET {H1, H2, H3} :
        \E tab \in Tables({PrefixH1, TagMain}, vs) :
            InitStore(MenuResolveAny, NoStale, vs, tab)
SpecResolveAny == InitResolveAny /\ [][NextResolve]_vars

\* callers that tag and retag the two versions of a store
InitRefs == InitStore(MenuRefs, NoStale, {H1, H3}, EmptyTab)
NextRefs ==
    \E p \in Procs :
        \/ StartTag(p) \/ ResolveStep(p) \/ TagStep(p)
        \/ AcquireOk(p) \/ AcquireRetry(p) \/ AcquireTimeout(p)
SpecRefs == InitRefs /\ [][NextRefs]_vars

\* callers that create, tag, export, import and resolve in one store
InitStoreOps == InitStore(MenuStore, NoStale, {H3}, EmptyTab)
NextStoreOps ==
    \E p \in Procs :
        \/ StartCreate(p) \/ StartTag(p) \/ StartImport(p) \/ StartExport(p)
        \/ StartResolve(p) \/ ResolveReturn(p)
        \/ LockStep(p) \/ ResolveStep(p) \/ TagStep(p) \/ CreateStep(p)
        \/ ImportStep(p) \/ ExportTar(p)
SpecStoreOps == InitStoreOps /\ [][NextStoreOps]_vars

\* the callers turn to a store that init_repo has just made; the archives
\* written by export_version stay where they are
FreshStore ==
    /\ \A p \in Procs : pc[p] \in {"idle", "done"}
    /\ DOMAIN tarball # {}
    /\ VersionDirs # {}
    /\ versions' = [h \in {} |-> NoFiles]
    /\ refsFile' = [st |-> "ok", tab |-> EmptyTab]
    /\ committed' = [h \in {} |-> NoFiles]
    /\ lastWrite' = EmptyTab
    /\ UNCHANGED <<lockFile, tarball, layout, pc, call, loc, acquired, result, nops, menu,
                   pipelineRuns, history>>

\* callers that export a version, turn to a fresh store and import archives
InitArchive == InitStore(MenuArchive, NoStale, {H1}, EmptyTab)
NextArchive ==
    \/ FreshStore
    \/ \E p \in Procs :
          \/ StartExport(p) \/ StartImport(p)
          \/ AcquireOk(p) \/ AcquireRetry(p) \/ AcquireTimeout(p) \/ Unwind(p)
          \/ ResolveStep(p) \/ ExportTar(p) \/ ImportStep(p)
SpecArchive == InitArchive /\ [][NextArchive]_vars

\* the whole system
Init == InitLock \/ InitCreate \/ InitImport \/ InitTags \/ InitResolve \/ InitRefs \/ InitStoreOps
        \/ InitArchive \/ InitAcquire \/ InitLayout \/ InitList \/ InitHasher
        \/ InitMetrics \/ InitCompare
Next ==
    \E p \in Procs :
        \/ StartCreate(p) \/ StartTag(p) \/ StartImport(p) \/ StartExport(p)
        \/ StartLoad(p) \/ StartLock(p) \/ ReleaseLock(p) \/ ReleaseAgain(p)
        \/ StartResolve(p) \/ ResolveReturn(p)
        \/ LockStep(p) \/ ResolveStep(p) \/ TagStep(p) \/ CreateStep(p)
        \/ ImportStep(p) \/ ExportTar(p) \/ LoadRead(p)
        \/ StartInitRepo(p) \/ InitRepoStep(p) \/ StartList(p) \/ ListStep(p)
        \/ ComputeMetrics(p) \/ ComputeDataOverlap(p)
        \/ FreshStore

Spec == Init /\ [][Next]_vars

\* ------------------------------------------------------------ properties
Holders(n) == {p \in Procs : n \in acquired[p]}
Running(p) == pc[p] \notin {"idle", "done"}
Quiescent == \A p \in Procs : ~Running(p)
Ended(p, op) == pc[p] = "done" /\ call[p].op = op
CreatingNow(h) == \E p \in Procs : Running(p) /\ call[p].op = "create" /\ loc[p].vh = h

\* C1: for every lock name at most one caller holds the lock at any time,
\* and while it holds it the lock file is the one it created: no other
\* caller's acquire succeeds between its acquire and its release.
MutualExclusion ==
    \A n \in LockNames :
        /\ Cardinality(Holders(n)) <= 1
        /\ \A p \in Holders(n) : lockFile[n] = p

\* C1 witness: one caller holds the lock while another has retried on it
ContendedLock ==
    \E p, q \in Procs :
        /\ p # q
        /\ "test_lock" \in acquired[p]
        /\ pc[q] = "acq" /\ loc[q].lk = "test_lock" /\ loc[q].tries > 0

\* C2: a load_version that found the directory of a version never finds the
\* data file of that version missing (it sees the version whole or not at all).
ReadersSeeWholeVersions ==
    \A p \in Procs :
        Ended(p, "load") =>
            ~(result[p].st = "VersionNotFoundError" /\ result[p].val # NoName)

FailKinds == {"OSError", "DataFormatError", "InvalidConfigError"}

\* C3: when a create_version that failed inside its try block raises to its
\* caller, no directory of its version hash exists, and none exists any more
\* when it is about to release the create_version lock.
FailedCreateLeavesNothing ==
    \A p \in Procs :
        /\ (Ended(p, "create") /\ result[p].st \in FailKinds) => ~result[p].left
        /\ (/\ pc[p] = "unwind" /\ call[p].op = "create"
            /\ loc[p].err \in FailKinds /\ "create_version" \in acquired[p])
               => ~DirExists(loc[p].vh)

\* C3 witness: a create_version whose pipeline failed has raised
PipelineFailureRaised ==
    \E p \in Procs :
        /\ Ended(p, "create") /\ call[p].cfg = CfgBadStep
        /\ result[p].st = "InvalidConfigError" /\ result[p].ran
        /\ ~DirExists(VersionHashOf(call[p].raw, call[p].cfg))

\* C4: a create_version called when its version is fully present, and not
\* timing out on the lock, returns the version's hash, does not run the
\* pipeline and ends with the version's files as they were.
RepeatedCreateIsIdempotent ==
    \A p \in Procs :
        (Ended(p, "create") /\ result[p].existed /\ result[p].st # "LockTimeoutError")
            => /\ result[p].st = "ok"
               /\ result[p].val = VersionHashOf(call[p].raw, call[p].cfg)
               /\ ~result[p].ran
               /\ result[p].same

\* C4 witness: a second create_version of a present version has returned
CreatedAgain ==
    \E p \in Procs :
        /\ Ended(p, "create") /\ result[p].existed
        /\ result[p].st = "ok" /\ result[p].val = H1
        /\ pipelineRuns[H1] = 1

VersionsImmutable ==
    \A h \in DOMAIN committed : DirExists(h) /\ versions[h] = committed[h]

\* C7: when no operation is in progress every directory under versions/
\* holds all four artifacts.
NoPartialVersions == Quiescent => \A h \in VersionDirs : FullyPresent(h)

\* C8: a caller never holds or requests the refs lock while it holds the
\* create_version lock.
TagsAfterCreateLock ==
    \A p \in Procs :
        "create_version" \in acquired[p] =>
            ~("refs" \in acquired[p] \/ (pc[p] = "acq" /\ loc[p].lk = "refs"))

\* C9: a lock file left behind stays as it is, nobody acquires its lock,
\* and every acquire on its name that ends, ends with LockTimeoutError.
StaleLockStays ==
    [][\A n \in LockNames :
         lockFile[n] = Stale =>
            /\ lockFile'[n] = Stale
            /\ \A p \in Procs :
                 /\ n \notin acquired'[p]
                 /\ (pc'[p] = "done" /\ call'[p].op = "lock" /\ call'[p].dtype = n)
                      => result'[p].st = "LockTimeoutError"]_vars

\* C9 witness: an acquire on the name of a left-behind lock file has timed out
TimedOutOnStaleLock ==
    \E p \in Procs :
        /\ lockFile["test_lock"] = Stale
        /\ Ended(p, "lock") /\ call[p].dtype = "test_lock"
        /\ result[p].st = "LockTimeoutError"

\* C10: whenever refs.json is whole, it maps every tag to the hash of the
\* last write for that tag, and holds no other tag: no write is lost.
NoLostTagUpdate == refsFile.st = "ok" => refsFile.tab = lastWrite

\* C10 witness: two callers have tagged, different tags, and both are there
TwoTagsByTwoCallers ==
    \E p, q \in Procs :
        /\ p # q
        /\ Ended(p, "tag") /\ result[p].st = "ok"
        /\ Ended(q, "tag") /\ result[q].st = "ok"
        /\ call[p].tag # call[q].tag
        /\ refsFile.st = "ok"
        /\ DOMAIN refsFile.tab = {call[p].tag, call[q].tag}

\* C11: a resolve_version call returns its id whenever a directory of that
\* name exists, whatever the ref table holds; it answers from the ref table
\* only when no such directory exists, and it reaches the prefix match (or
\* fails) only when the id is neither a directory nor a tag.
ResolutionOrder ==
    \A p \in Procs :
        Ended(p, "resolve") =>
            /\ DirExists(call[p].id) =>
                  /\ result[p].st = "ok" /\ result[p].val = call[p].id
                  /\ result[p].msg = "dir"
            /\ (~DirExists(call[p].id) /\ call[p].id \in DOMAIN refsFile.tab) =>
                  /\ result[p].st = "ok" /\ result[p].val = refsFile.tab[call[p].id]
                  /\ result[p].msg = "tag"
            /\ (result[p].st # "ok" \/ result[p].msg = "prefix") =>
                  /\ ~DirExists(call[p].id)
                  /\ call[p].id \notin DOMAIN refsFile.tab

\* C11 witness: an id that is a directory and also a tag for another version
\* has been resolved to itself
HashBeatsTag ==
    \E p \in Procs :
        /\ Ended(p, "resolve") /\ call[p].id = H1
        /\ DirExists(H1) /\ H1 \in DOMAIN refsFile.tab /\ refsFile.tab[H1] # H1
        /\ result[p].st = "ok" /\ result[p].val = H1

\* the id of a finished resolve_version call is no directory name, but a tag
\* name and a proper prefix of the name of a version in the store
TagNamedLikePrefix(p) ==
    /\ Ended(p, "resolve")
    /\ ~DirExists(call[p].id)
    /\ call[p].id \in DOMAIN refsFile.tab
    /\ PrefixMatches(call[p].id) # {}

\* C12 as claimed: resolving a tag name that is a proper prefix of a
\* version's hash returns a version whose hash has that prefix.
PrefixBeatsTag ==
    \A p \in Procs :
        TagNamedLikePrefix(p) =>
            result[p].st = "ok" /\ result[p].val \in PrefixMatches(call[p].id)

\* C12 amended: resolving a tag name that is a proper prefix of a version's
\* hash returns the version the tag points to, found in the ref table and not
\* by prefix matching.
TagBeatsPrefix ==
    \A p \in Procs :
        TagNamedLikePrefix(p) =>
            /\ result[p].st = "ok"
            /\ result[p].val = refsFile.tab[call[p].id]
            /\ result[p].msg = "tag"

\* C12 witness: the first digit of H1 is a tag for H3; resolving it gave H3
\* although H1 is in the store
TagOverPrefixResolved ==
    \E p \in Procs :
        /\ TagNamedLikePrefix(p) /\ call[p].id = PrefixH1
        /\ DirExists(H1) /\ refsFile.tab[PrefixH1] = H3
        /\ result[p].val = H3

\* the id of a finished resolve_version call is neither a directory name nor
\* a tag name, and n or more (exactly n for n = 0) directory names start with it
PrefixCase(p, n) ==
    /\ Ended(p, "resolve")
    /\ ~DirExists(call[p].id)
    /\ call[p].id \notin DOMAIN refsFile.tab
    /\ IF n = 0 THEN PrefixMatches(call[p].id) = {}
                ELSE Cardinality(PrefixMatches(call[p].id)) >= n

\* C13: resolving an id that is only a prefix, of two or more directory
\* names, fails with an exception that lists all of them and whose class is
\* not the class raised when no directory name starts with the id.
AmbiguityDistinguished ==
    \A p \in Procs :
        PrefixCase(p, 2) =>
            /\ result[p].st # "ok"
            /\ result[p].listed = PrefixMatches(call[p].id)
            /\ \A q \in Procs : PrefixCase(q, 0) => result[q].st # result[p].st

\* C14: when tag_version has rewritten refs.json and is about to leave its
\* with-block, the table maps the tag to the hash the id resolved to (the id
\* itself if it names a directory), whatever the tag mapped to before, and
\* maps every other tag as the table it read did.
TagSetsItsNameOnly ==
    \A p \in Procs :
        (pc[p] = "tv_rel" /\ call[p].op = "tag") =>
            /\ refsFile.st = "ok"
            /\ loc[p].res \in VersionDirs
            /\ DirExists(call[p].id) => loc[p].res = call[p].id
            /\ DOMAIN refsFile.tab = DOMAIN loc[p].seen \cup {call[p].tag}
            /\ refsFile.tab[call[p].tag] = loc[p].res
            /\ \A t \in DOMAIN loc[p].seen \ {call[p].tag} :
                  refsFile.tab[t] = loc[p].seen[t]

\* C14 witness: a tag that mapped to H1 has been set to H3, and the other
\* tag of the table is as it was
Retagged ==
    \E p \in Procs :
        /\ pc[p] = "tv_rel" /\ call[p] = TagCall(H3, TagMain)
        /\ DOMAIN loc[p].seen = {TagMain, TagV1}
        /\ loc[p].seen[TagMain] = H1
        /\ refsFile.tab[TagMain] = H3
        /\ refsFile.tab[TagV1] = loc[p].seen[TagV1]

\* the step is one of caller p
StepOf(p) == pc'[p] # pc[p] \/ loc'[p] # loc[p]

\* C15: only steps of create_version and import_version change versions/,
\* only steps of tag_version and of a create_version with tags change
\* refs.json, and the directory test of resolve_version answers with the id
\* whenever a directory of that name exists, whatever refs.json holds.
RefsAndVersionsIndependent ==
    [][/\ versions' # versions =>
            \E p \in Procs : StepOf(p) /\ call[p].op \in {"create", "import"}
       /\ refsFile' # refsFile =>
            \E p \in Procs :
                /\ StepOf(p)
                /\ \/ call[p].op = "tag"
                   \/ call[p].op = "create" /\ call[p].tags # << >>
       /\ \A p \in Procs :
            (pc[p] = "rv_dir" /\ StepOf(p) /\ DirExists(loc[p].id)) =>
                /\ pc'[p] = AfterResolve(p)
                /\ loc'[p].res = loc[p].id]_vars

\* C15 witness: with an empty ref table a version was resolved by its hash,
\* after an import into the store and an export from it
ResolvedWithoutTags ==
    \E p \in Procs :
        /\ Ended(p, "resolve") /\ call[p].id = H3
        /\ result[p].st = "ok" /\ result[p].val = H3
        /\ refsFile.tab = EmptyTab /\ lastWrite = EmptyTab
        /\ history[H1].imported

\* C20: a caller that has no operation in progress holds no lock, and every
\* lock file was written by a caller whose operation is in progress: when no
\* operation is in progress there is no lock file.
LocksReleased ==
    /\ \A p \in Procs : ~Running(p) => acquired[p] = {}
    /\ \A n \in LockNames :
         lockFile[n] # NoFile => (lockFile[n] \in Procs /\ Running(lockFile[n]))
    /\ Quiescent => \A n \in LockNames : lockFile[n] = NoFile

\* C20 witness: nothing is in progress after a create_version that failed
\* inside its with-block and a tag_version that timed out on the refs lock
\* or an import_version that ended by error
QuietAfterFailures ==
    /\ Quiescent
    /\ \E p \in Procs : Ended(p, "create") /\ result[p].st = "OSError"
    /\ \E q \in Procs : Ended(q, "import") /\ result[q].st = "FileExistsError"

\* the path is absolute or one of its segments is ".."
EscapingPath(path) ==
    \/ Len(path) > 0 /\ Head(path) = "/"
    \/ \E i \in 1..(Len(path) - 1) :
          /\ path[i] = "." /\ path[i + 1] = "."
          /\ (i = 1 \/ path[i - 1] = "/")
          /\ (i + 1 = Len(path) \/ path[i + 2] = "/")

\* C16: an import_version call on an archive with a member whose path is
\* absolute or has a ".." segment ends in its first step, before anything
\* is extracted, with ImportError_ "Unsafe path in tarball", and leaves
\* versions/ and refs.json as they are.
UnsafeArchiveRejected ==
    [][\A p \in Procs :
         (/\ nops'[p] # nops[p]
          /\ call'[p].op = "import"
          /\ EscapingPath(call'[p].arch.extra))
            => /\ pc'[p] = "done"
               /\ result'[p].st = "ImportError_"
               /\ result'[p].msg = "Unsafe path in tarball"
               /\ UNCHANGED <<versions, refsFile>>]_vars

\* C16 witness: an archive with a member "../a" has been refused
EscapeRefused ==
    \E p \in Procs :
        /\ Ended(p, "import") /\ call[p].arch.extra = PathEscape
        /\ result[p].st = "ImportError_" /\ result[p].msg = "Unsafe path in tarball"

\* C17: an import_version call on an archive named by a hash whose version
\* was fully present when the archive was looked at ends with ImportError_
\* "already exists", the files of the version being what they were.
ReimportRejected ==
    \A p \in Procs :
        (Ended(p, "import") /\ result[p].existed) =>
            /\ result[p].st = "ImportError_"
            /\ result[p].msg = "already exists"
            /\ result[p].same

\* C17 witness: an archive named H1 has been refused in the store that
\* holds H1, whose files are the ones it had
ConflictRefused ==
    \E p \in Procs :
        /\ Ended(p, "import") /\ result[p].existed /\ call[p].arch = ExtFull
        /\ result[p].st = "ImportError_"
        /\ DirExists(H1) /\ versions[H1] = StoredFiles(H1)

\* C18: the check of what was extracted lets an import_version call go on
\* only if there is exactly one top-level directory and its name is a hash
\* name (HashLen characters, all hex digits); otherwise the call ends there
\* with ImportError_ and versions/ and refs.json are as they were.  No
\* import_version call returns a hash for another archive.
InvalidArchiveRejected ==
    [][\A p \in Procs :
         /\ (pc[p] = "iv_extract" /\ StepOf(p)) =>
               IF call[p].arch.ndirs = 1 /\ call[p].arch.name \in HashNames
               THEN pc'[p] = "iv_exists"
               ELSE /\ pc'[p] = "done"
                    /\ result'[p].st = "ImportError_"
                    /\ result'[p].msg \in {"Expected exactly one directory",
                                           "Invalid version hash"}
                    /\ UNCHANGED <<versions, refsFile>>
         /\ (StepOf(p) /\ call[p].op = "import" /\ pc'[p] = "done"
             /\ result'[p].st = "ok") =>
               call[p].arch.ndirs = 1 /\ call[p].arch.name \in HashNames]_vars

\* C18 witness: an archive whose directory name is too short was refused
InvalidRefused ==
    \E p \in Procs :
        /\ Ended(p, "import") /\ call[p].arch = ExtShortName
        /\ result[p].st = "ImportError_" /\ result[p].msg = "Invalid version hash"

\* C19: when import_version returns for an archive that export_version
\* wrote, it returns the hash of the exported version and the files of that
\* hash in the store are the files the version had when it was exported;
\* and no step of export_version changes versions/, refs.json or a lock.
RoundTrip ==
    [][\A p \in Procs :
         /\ (/\ pc[p] = "iv_copy" /\ pc'[p] = "done" /\ result'[p].st = "ok"
             /\ call[p].id # NoName)
               => /\ result'[p].val = call[p].id
                  /\ DirExists(call[p].id)
                  /\ versions[call[p].id] = call[p].arch.source
         /\ (StepOf(p) /\ call[p].op = "export")
               => UNCHANGED <<versions, refsFile, lockFile>>]_vars

\* C19 witness: the archive exported from H1 has been imported into a fresh
\* store, which holds H1 with the four files of the store it came from
RoundTripDone ==
    \E p \in Procs :
        /\ Ended(p, "import") /\ call[p].id = H1 /\ result[p].st = "ok"
        /\ call[p].arch.source = StoredFiles(H1)
        /\ history[H1].imported
        /\ DirExists(H1) /\ versions[H1] = StoredFiles(H1)

\* the classes an exception of class kind is an instance of
Bases(kind) ==
    CASE kind = "LockTimeoutError" -> {"LockTimeoutError", "LockError", "FluxError"}
      [] kind = "LockError" -> {"LockError", "FluxError"}
      [] OTHER -> {kind, "FluxError"}

\* C21: every acquire call finishes, even if the lock is never released: a
\* caller inside acquire leaves it, a finished acquire has either obtained
\* the lock or raised LockTimeoutError, and a handler for LockTimeoutError
\* catches the timeout but no other LockError.
AcquireEnds ==
    /\ \A p \in Procs : (pc[p] = "acq") ~> (pc[p] # "acq")
    /\ [](\A p \in Procs :
            /\ pc[p] = "held" => (loc[p].lk \in acquired[p] /\ lockFile[loc[p].lk] = p)
            /\ (pc[p] = "done" /\ call[p].op = "lock") =>
                 /\ result[p].st \in {"ok", "LockTimeoutError"}
                 /\ "LockTimeoutError" \in Bases(result[p].st) <=> result[p].st # "ok"
                 /\ "LockTimeoutError" \notin Bases("LockError"))

\* a caller has given up on a lock file that nobody releases
GaveUpOnDeadLock ==
    \E p \in Procs :
        /\ pc[p] = "done" /\ call[p].op = "lock" /\ call[p].retry = 20
        /\ result[p].st = "LockTimeoutError"
        /\ lockFile["test_lock"] = Stale

\* C22: of two release calls on a handle that acquired the lock, the first
\* removes the lock file and the second changes nothing: it leaves a lock
\* file that another caller has created since where it is.
ReleaseTwice ==
    [][\A p \in Procs :
         /\ (pc[p] = "held" /\ pc'[p] # "held") =>
                (lockFile[loc[p].lk] = p /\ lockFile'[loc[p].lk] = NoFile)
         /\ (pc[p] = "released" /\ pc'[p] = "done") =>
                (lockFile' = lockFile /\ acquired' = acquired)]_vars

\* the second release found the lock file of another caller, and left it
SecondReleaseSparedOther ==
    \E p \in Procs :
        /\ pc[p] = "done" /\ call[p].op = "lock" /\ call[p].twice
        /\ result[p].st = "ok" /\ result[p].existed
        /\ lockFile["test_lock"] \in Procs \ {p}

\* C23: for every initial interval, no wait between two attempts of an
\* acquire is longer than the cap of 1 time unit.
WaitsCapped ==
    \A p \in Procs : pc[p] = "acq" => loc[p].wait <= MaxInterval
\* a call of op that this step begins
Begins(p, op) == pc[p] \in {"idle", "done"} /\ nops'[p] = nops[p] + 1 /\ call'[p].op = op

\* a call of op that this step ends
Returns(p, op) == call'[p].op = op /\ pc'[p] = "done" /\ (pc[p] # "done" \/ nops'[p] # nops[p])

\* C24: create_version checks the store, then the raw path, then the
\* pipeline key of the config; the first check that fails decides the error,
\* and the failing call takes no lock, makes no version directory and leaves
\* the ref table as it is.
ChecksInOrder ==
    [][\A p \in Procs : Begins(p, "create") =>
         LET c == call'[p]
             failed == pc'[p] = "done"
         IN /\ ~IsFluxRepo => (failed /\ result'[p].st = "RepositoryNotFoundError")
            /\ (IsFluxRepo /\ c.raw = RawAbsent) =>
                   (failed /\ result'[p].st = "FileNotFoundError")
            /\ (IsFluxRepo /\ c.raw # RawAbsent /\ c.cfg = CfgNoPipeline) =>
                   (failed /\ result'[p].st = "InvalidConfigError")
            /\ (IsFluxRepo /\ c.raw # RawAbsent /\ c.cfg # CfgNoPipeline) => ~failed
            /\ failed => (/\ acquired' = acquired
                          /\ UNCHANGED <<lockFile, versions, refsFile, layout>>)]_vars

\* a call with no store, no raw file and no pipeline was told about the store
StoreCheckedFirst ==
    \E p \in Procs :
        /\ Ended(p, "create") /\ call[p].raw = RawAbsent /\ call[p].cfg = CfgNoPipeline
        /\ result[p].st = "RepositoryNotFoundError"
        /\ acquired[p] = {} /\ VersionDirs = {}

\* C25 as stated: init_repo on a valid store changes nothing, and on any
\* other path it returns with versions/, locks/ and an empty ref table.
InitRepoAsClaimed ==
    [][\A p \in Procs : Returns(p, "init") =>
         IF result'[p].existed
         THEN UNCHANGED fsVars
         ELSE /\ {"versions", "locks"} \subseteq layout'
              /\ refsFile' = [st |-> "ok", tab |-> EmptyTab]]_vars

\* C25: init_repo on a valid store changes nothing; on any other path it
\* returns with versions/ and locks/, and with an empty ref table where the
\* path held no refs.json and the refs.json the path held otherwise.
InitRepoIdempotent ==
    [][\A p \in Procs : Returns(p, "init") =>
         IF result'[p].existed
         THEN UNCHANGED fsVars
         ELSE /\ {"versions", "locks"} \subseteq layout'
              /\ refsFile' = [st |-> "ok",
                              tab |-> IF loc[p].had THEN loc[p].refs ELSE EmptyTab]
              /\ versions' = versions]_vars

\* init_repo has returned a store whose tags it found on the path
InitRepoKeptRefs ==
    \E p \in Procs :
        /\ Ended(p, "init") /\ result[p].st = "ok" /\ ~result[p].existed
        /\ refsFile.st = "ok" /\ refsFile.tab # EmptyTab
        /\ {"versions", "locks"} \subseteq layout

\* C26: list_versions returns one entry per version directory, in ascending
\* order of the hashes, each with exactly the tags the ref table maps to it.
ListedAll ==
    [][\A p \in Procs : (Returns(p, "list") /\ result'[p].st = "ok") =>
         LET es == result'[p].entries
         IN /\ {es[i].version_hash : i \in 1..Len(es)} = VersionDirs
            /\ Len(es) = Cardinality(VersionDirs)
            /\ \A i, j \in 1..Len(es) :
                   i < j => Less(es[i].version_hash, es[j].version_hash)
            /\ \A i \in 1..Len(es) :
                   es[i].tags = {t \in DOMAIN refsFile.tab :
                                   refsFile.tab[t] = es[i].version_hash}]_vars

\* three versions were listed, one of them with two tags
ListedThree ==
    \E p \in Procs :
        /\ Ended(p, "list") /\ result[p].st = "ok"
        /\ Len(result[p].entries) = 3
        /\ \E i \in 1..3 : Cardinality(result[p].entries[i].tags) = 2
\* a config as a nested mapping, the order of its items forgotten
RECURSIVE AsMapping(_)
AsMapping(d) ==
    {[key |-> d[i].key, kind |-> d[i].kind, val |-> d[i].val, sub |-> AsMapping(d[i].sub)] :
        i \in 1..Len(d)}

\* C27: two configs that are the same nested mapping have the same canonical
\* string, config hash and version hash for the same raw bytes, and
\* create_version calls with them return one hash and leave one directory.
KeyOrderIgnored ==
    \A p, q \in Procs :
        (/\ call[p].op = "create" /\ call[q].op = "create"
         /\ AsMapping(call[p].cfg) = AsMapping(call[q].cfg)) =>
            /\ canonicalize_config(call[p].cfg) = canonicalize_config(call[q].cfg)
            /\ compute_config_hash(call[p].cfg) = compute_config_hash(call[q].cfg)
            /\ call[p].raw = call[q].raw =>
                  /\ VersionHashOf(call[p].raw, call[p].cfg) = VersionHashOf(call[q].raw, call[q].cfg)
                  /\ (Running(p) /\ Running(q)) => loc[p].vh = loc[q].vh
                  /\ (Ended(p, "create") /\ Ended(q, "create")
                      /\ result[p].st = "ok" /\ result[q].st = "ok") =>
                        (result[p].val = result[q].val /\ DirExists(result[p].val))

\* two callers have created one version from two key orders of a config
CreatedFromTwoOrders ==
    \E p, q \in Procs :
        /\ Ended(p, "create") /\ Ended(q, "create")
        /\ result[p].st = "ok" /\ result[q].st = "ok"
        /\ call[p].raw = call[q].raw
        /\ call[p].cfg = CfgFull /\ call[q].cfg = CfgFullReordered
        /\ result[p].val = result[q].val
        /\ pipelineRuns[result[p].val] = 1

\* C28: the version hash of a create_version call is the digest of the raw
\* hash followed by the config hash, and two calls with the same raw hash
\* and the same config hash have the same version hash.
VersionHashIsDigestOfBoth ==
    \A p \in Procs : (call[p].op = "create" /\ Running(p)) =>
        /\ loc[p].vh = Sha(Sha(call[p].raw) \o Sha(canonicalize_config(call[p].cfg)))
        /\ \A q \in Procs : (call[q].op = "create" /\ Running(q)
                              /\ compute_file_hash(call[q].raw) = compute_file_hash(call[p].raw)
                              /\ compute_config_hash(call[q].cfg) = compute_config_hash(call[p].cfg))
                                 => loc[q].vh = loc[p].vh

\* a version hash has been computed from a raw hash and a config hash that
\* differ, whose digest in the other order is another one
HashedInOrder ==
    \E p \in Procs :
        /\ call[p].op = "create" /\ Running(p)
        /\ compute_file_hash(call[p].raw) # compute_config_hash(call[p].cfg)
        /\ loc[p].vh # Sha(compute_config_hash(call[p].cfg) \o compute_file_hash(call[p].raw))
\* whether two means are the same number
SameMean(a, b) == a.n = b.n /\ a.sum * b.n = b.sum * a.n

\* C29: compute_metrics gives the same vocabulary size and the same mean row
\* length for the same rows with the tokenized flag set and not set.
TokenizedFlagIgnored ==
    \A p, q \in Procs :
        (/\ Ended(p, "metrics") /\ Ended(q, "metrics")
         /\ call[p].rows = call[q].rows /\ call[p].flag /\ ~call[q].flag) =>
            /\ result[p].metrics.vocab_size = result[q].metrics.vocab_size
            /\ SameMean(result[p].metrics.avg_text_length, result[q].metrics.avg_text_length)
\* C30: for the distinct texts A and B of two processed frames, the overlap
\* has common = |A /\ B|, only-in-v1 = |A \ B|, only-in-v2 = |B \ A| and
\* Jaccard = |A /\ B| / |A \/ B|, 1.0 when both are empty; each side lists
\* at most five examples, all of them texts of that side only.
OverlapCounts ==
    \A p \in Procs : Ended(p, "overlap") =>
        LET A == {call[p].rows[i] : i \in DOMAIN call[p].rows}
            B == {call[p].rows2[i] : i \in DOMAIN call[p].rows2}
            o == result[p].overlap
        IN /\ o.common = Cardinality(A \cap B)
           /\ o.only1 = Cardinality(A \ B)
           /\ o.only2 = Cardinality(B \ A)
           /\ o.jaccard.n # 0
           /\ IF A \cup B = {}
              THEN o.jaccard.sum = o.jaccard.n
              ELSE o.jaccard.sum * Cardinality(A \cup B) = Cardinality(A \cap B) * o.jaccard.n
           /\ Cardinality(o.examples1) <= 5 /\ o.examples1 \subseteq A \ B
           /\ Cardinality(o.examples2) <= 5 /\ o.examples2 \subseteq B \ A

\* one text in common of seven, and five of the six texts of the first
\* side only listed
OverlapCutToFive ==
    \E p \in Procs :
        /\ Ended(p, "overlap")
        /\ result[p].overlap.common = 1 /\ result[p].overlap.only1 = 6
        /\ result[p].overlap.only2 = 0
        /\ result[p].overlap.jaccard = Mean(1, 7)
        /\ Cardinality(result[p].overlap.examples1) = 5

\* C31: for each numeric metric present in both metadata records the metrics
\* diff reports change = v2 - v1 and reports pct_change = change / v1 * 100
\* exactly when v1 is not zero; the diff never divides by zero
MetricsDiffAsClaimed ==
    \A p \in Procs :
        Ended(p, "diff") =>
            /\ result[p].st = "ok"
            /\ \A k \in NumericKeys :
                  LET v1 == call[p].meta1[k]
                      v2 == call[p].meta2[k]
                      e == result[p].diff[k]
                      nan == v1.n = 0 \/ v2.n = 0
                  IN (v1 # None /\ v2 # None) =>
                       /\ e.has /\ e.v1 = v1 /\ e.v2 = v2
                       /\ e.change # None
                       /\ IsNaN(e.change) <=> nan
                       \* change = v2 - v1, as quotients
                       /\ ~nan => e.change.sum * v1.n * v2.n
                                    = (v2.sum * v1.n - v1.sum * v2.n) * e.change.n
                       /\ (e.pct_change # None) <=> (v1.n = 0 \/ v1.sum # 0)
                       \* pct_change * v1 = change * 100, as quotients
                       /\ (~nan /\ v1.sum # 0) =>
                             /\ ~IsNaN(e.pct_change)
                             /\ e.pct_change.sum * v1.sum * e.change.n
                                  = e.change.sum * 100 * v1.n * e.pct_change.n

\* a diff of the metrics of a one-row frame of whitespace against those of a
\* two-row frame with two words: the vocabulary grew from 0 to 2 (no
\* percentage), the sample count by 100 per cent
MetricsDiffWithZero ==
    \E p \in Procs :
        /\ Ended(p, "diff")
        /\ call[p].meta1["vocab_size"] = IntVal(0)
        /\ call[p].meta2["vocab_size"] = IntVal(2)
        /\ result[p].diff["vocab_size"].change = FloatVal(2, 1)
        /\ result[p].diff["vocab_size"].pct_change = None
        /\ result[p].diff["num_samples"].pct_change # None
        /\ result[p].diff["num_samples"].pct_change.sum
             = 100 * result[p].diff["num_samples"].pct_change.n
        /\ ~IsNaN(result[p].diff["avg_text_length"].pct_change)

\* an id that resolve_version resolves in the store as it is
Resolvable(id) ==
    DirExists(id) \/ id \in DOMAIN refsFile.tab \/ Cardinality(PrefixMatches(id)) = 1
Loadable(h) == DirExists(h) /\ FilesOf(h)["processed"] # Missing

\* C33: in a store that nobody writes to, a comparison fails only if one of
\* its two ids does not resolve, and then with VersionNotFoundError; a
\* missing metadata record counts as empty (its side of every diff entry is
\* None, and a key absent on both sides has no entry), and when the
\* processed data of a version cannot be loaded the overlap section is empty
CompareDegrades ==
    \A p \in Procs :
        Ended(p, "compare") =>
            /\ result[p].st = "ok" <=> (Resolvable(call[p].id) /\ Resolvable(call[p].id2))
            /\ result[p].st \in {"ok", "VersionNotFoundError"}
            /\ result[p].st = "ok" =>
                 \A h2 \in result[p].listed :
                    /\ \A k \in NumericKeys :
                         /\ FilesOf(result[p].val)["metadata"] = Missing
                               => result[p].diff[k].v1 = None
                         /\ FilesOf(h2)["metadata"] = Missing
                               => result[p].diff[k].v2 = None
                         /\ (result[p].diff[k].v1 = None \/ result[p].diff[k].v2 = None)
                               => result[p].diff[k].change = None
                    /\ (~Loadable(result[p].val) \/ ~Loadable(h2)) => result[p].noOverlap

\* a comparison returned its report for a version that has neither config
\* nor metadata nor processed data, and one for a tag that names a version
\* that is not in the store
ComparedPartialVersion ==
    \E p, q \in Procs :
        /\ Ended(p, "compare") /\ result[p].st = "ok"
        /\ result[p].val = H1 /\ result[p].listed = {H3}
        /\ FilesOf(H3) = Without(H3, {"config", "metadata", "processed"})
        /\ FilesOf(H1) = StoredFiles(H1)
        /\ result[p].noOverlap
        /\ result[p].diff["num_samples"].has
        /\ result[p].diff["num_samples"].v2 = None
        /\ Ended(q, "compare") /\ result[q].st = "ok"
        /\ result[q].listed = {H2} /\ ~DirExists(H2) /\ result[q].noOverlap

\* C32: no step of a comparison changes the version directories, the ref
\* table, or any other file of the store, and the comparing caller holds no
\* lock at any point
CompareReadsOnly ==
    [][\A p \in Procs :
          (StepOf(p) /\ call'[p].op = "compare") =>
              /\ versions' = versions /\ refsFile' = refsFile
              /\ lockFile' = lockFile /\ tarball' = tarball /\ layout' = layout
              /\ acquired[p] = {} /\ acquired'[p] = {} /\ pc'[p] # "acq"]_vars

\* a comparison of the version created meanwhile with the one tagged
\* meanwhile returned a report with an overlap section
ComparedInBusyStore ==
    \E p \in Procs :
        /\ Ended(p, "compare") /\ result[p].st = "ok"
        /\ result[p].val = H1 /\ result[p].listed = {H3}
        /\ ~result[p].noOverlap
        /\ TagMain \in DOMAIN refsFile.tab
        /\ FullyPresent(H1) /\ FullyPresent(H3)

\* C34: of the callers that import archives of one version hash into one
\* store at the same time at most one has succeeded, and every other import
\* that has ended has failed with ImportError_
ConcurrentImportsConflict ==
    /\ \A p \in Procs :
          Ended(p, "import") => result[p].st \in {"ok", "ImportError_"}
    /\ \A p, q \in Procs :
          (p # q /\ Ended(p, "import") /\ Ended(q, "import") /\ result[p].st = "ok")
              => result[q].st # "ok"

\* C35: every hash in the ref table names a version directory that exists
NoDanglingTags ==
    \A t \in DOMAIN refsFile.tab : DirExists(refsFile.tab[t])

\* C36: at the step at which create_version returns a hash, the directory
\* of that hash holds all four artifacts
CreateReturnsWholeVersion ==
    [][\A p \in Procs :
          (/\ call[p].op = "create" /\ pc[p] # "done"
           /\ pc'[p] = "done" /\ result'[p].st = "ok")
          => /\ result'[p].val \in DOMAIN versions'
             /\ \A a \in Artifacts : versions'[result'[p].val][a] # Missing]_vars

\* C37: when the first create_version of a caller, for a version that
\* nobody else creates or tags, has raised, the store holds no directory of
\* that version and no tag that names it
FailedCreateLeavesNoTrace ==
    \A p \in Procs :
        (Ended(p, "create") /\ nops[p] = 1 /\ result[p].st # "ok") =>
            /\ ~DirExists(VersionHashOf(call[p].raw, call[p].cfg))
            /\ \A t \in DOMAIN refsFile.tab :
                  refsFile.tab[t] # VersionHashOf(call[p].raw, call[p].cfg)

\* C38: what resolve_version returns is the name of a version directory
\* that exists
ResolvedIsVersion ==
    \A p \in Procs :
        (Ended(p, "resolve") /\ result[p].st = "ok") =>
            (result[p].val \in HashNames /\ DirExists(result[p].val))

\* C39: a release removes a lock file only if it is the file that the
\* releasing handle's own acquire created
ReleaseRemovesOwnFileOnly ==
    [][\A p \in Procs :
          (/\ pc[p] \in {"held", "released"} /\ StepOf(p)
           /\ lockFile[loc[p].lk] # NoFile /\ lockFile'[loc[p].lk] = NoFile)
          => lockFile[loc[p].lk] = p]_vars

\* C40: a read of the ref table that runs while a tag is moved from H3 to H1
\* answers from the table before or the table after: a resolve_version of
\* the tag returns H3 or H1, a list_versions returns its list with the tag
\* on one of the two versions, and neither fails
RefReadsSeeOldOrNew ==
    \A p \in Procs :
        /\ Ended(p, "resolve") => (result[p].st = "ok" /\ result[p].val \in {H1, H3})
        /\ Ended(p, "list") =>
              /\ result[p].st = "ok"
              /\ \E h \in {H1, H3} :
                    \A i \in 1..Len(result[p].entries) :
                        result[p].entries[i].tags
                            = IF result[p].entries[i].version_hash = h THEN {TagMain} ELSE {}
====
